---- MODULE Spec2Model ----
(***************************************************************************)
(* Snapshot pagination (PageSnapshot.truncatedText, the browser_snapshot   *)
(* tool handler, Tab.captureTruncatedSnapshot) and the Tab's modal-state   *)
(* queue of playwright-mcp.                                                *)
(*                                                                         *)
(* A raw snapshot is the sequence of lines rawSnapshot.split('\n') yields; *)
(* the empty text "" is the one-line sequence << Blank >>.  A line is      *)
(*   indent  the length of its leading whitespace,                         *)
(*   dash    whether its trimmed text starts with the list marker "- ",    *)
(*   words   the number of its whitespace-separated words (0: blank).      *)
(* Line numbers are 0-based as in the source; At(lines, i) is lines[i].    *)
(***************************************************************************)
EXTENDS Integers, Sequences, FiniteSets, TLC

VARIABLES rawSnapshot, truncateSnapshot, modalStates, listener, pc, call, out, loop

\* the Tab's collections, the page behind it, and the calls that race
VARIABLES consoleMessages, recentConsoleMessages, requests, downloads, pageEx,
          onPageClose, actions, op

sessionVars == << consoleMessages, recentConsoleMessages, requests, downloads,
                 pageEx, onPageClose >>

tabVars == << sessionVars, actions, op >>

snapVars == << rawSnapshot, truncateSnapshot, call, out, loop >>

vars == << rawSnapshot, truncateSnapshot, modalStates, listener, pc, call, out, loop,
          tabVars >>

\* ------------------------------------------------------------------ bounds
MaxLines == 4
MaxIndent == 1
MaxTokens == 3
MaxModal == 2
MaxTabLines == 2
MaxRefs == 2
MaxParams == 2
MaxActions == 2
MaxEntries == 1
MaxDownloads == 1
MaxStarted == 2
MaxTabs == 2
MaxNavigations == 1

\* ------------------------------------------------------------------ lines
Blank == [indent |-> 0, dash |-> FALSE, words |-> 0]

TreeLine(i, d) == [indent |-> i, dash |-> d, words |-> 1]

LineSet == {Blank} \cup {TreeLine(i, d) : i \in 0..MaxIndent, d \in BOOLEAN}

RawTexts == UNION {[1..n -> LineSet] : n \in 1..MaxLines}

At(lines, i) == lines[i + 1]

\* line.trim() is non-empty
Trimmed(line) == line.words > 0

\* line.match(/^(\s*)/)?.[1]?.length || 0
LeadingSpaces(line) == line.indent

\* line.split(/\s+/).filter(w => w.length > 0).length
WordCount(line) == line.words

RECURSIVE SumWords(_, _, _)
SumWords(lines, from, to) ==
  IF from >= to THEN 0
  ELSE WordCount(At(lines, from)) + SumWords(lines, from + 1, to)

\* Stand-in for the external cl100k_base encoder on one line: one token per
\* word and one for a run of leading whitespace.
LineTokens(line) == WordCount(line) + (IF line.indent > 0 THEN 1 ELSE 0)

RECURSIVE SumTokens(_, _, _)
SumTokens(lines, from, to) ==
  IF from >= to THEN 0
  ELSE LineTokens(At(lines, from)) + SumTokens(lines, from + 1, to)

\* encoder.encode(lines.slice(start, end).join('\n')).length : the joining
\* newlines are one token each
TokenCount(lines, from, to) ==
  SumTokens(lines, from, to) + (IF to - from > 1 THEN to - from - 1 ELSE 0)

\* the size of the element lines[from..to) under a budget variant
ElementSize(variant, lines, from, to) ==
  IF variant = "words" THEN SumWords(lines, from, to)
  ELSE TokenCount(lines, from, to)

\* Math.floor(maxTokens * wordsPerToken) with wordsPerToken = 0.75
MaxWordsPerPage(maxTokens) == (maxTokens * 3) \div 4

PageBudget(variant, maxTokens) ==
  IF variant = "words" THEN MaxWordsPerPage(maxTokens) ELSE maxTokens

\* ------------------------------------------------- first pass: boundaries
ScanInit == [i |-> 0, inElement |-> FALSE, elementStartLine |-> 0,
             elementBoundaries |-> << >>]

\* the condition that closes an element after line i
ClosesAfter(lines, i) ==
  /\ i < Len(lines) - 1
  /\ \/ ~Trimmed(At(lines, i))
     \/ /\ Trimmed(At(lines, i + 1))
        /\ LeadingSpaces(At(lines, i + 1)) <= LeadingSpaces(At(lines, i))
        /\ At(lines, i).dash

\* one iteration of the scanning loop, at line s.i
ScanStep(lines, s) ==
  LET opens == Trimmed(At(lines, s.i)) /\ ~s.inElement
      inEl  == s.inElement \/ opens
      start == IF opens THEN s.i ELSE s.elementStartLine
      close == ClosesAfter(lines, s.i) /\ inEl
  IN [i |-> s.i + 1,
      inElement |-> inEl /\ ~close,
      elementStartLine |-> start,
      elementBoundaries |->
        IF close THEN s.elementBoundaries \o << start, s.i + 1 >>
        ELSE s.elementBoundaries]

\* the end of the scan leaving an element that is still open out
ScanEndDropsOpen(lines, s) == s.elementBoundaries

\* "Handle last element"
ScanEnd(lines, s) ==
  IF s.inElement THEN s.elementBoundaries \o << s.elementStartLine, Len(lines) >>
  ELSE s.elementBoundaries

RECURSIVE ScanLoop(_, _)
ScanLoop(lines, s) ==
  IF s.i < Len(lines) THEN ScanLoop(lines, ScanStep(lines, s)) ELSE s

\* the flat array elementBoundaries: start, end, start, end, ...
ElementBoundaries(lines) == ScanEnd(lines, ScanLoop(lines, ScanInit))

\* elementBoundaries[k], 0-based
Eb(eb, k) == eb[k + 1]

NumElements(eb) == Len(eb) \div 2

\* ------------------------------------------------ second pass: the pages
AssembleInit == [i |-> 0, pages |-> << >>, currentPageStart |-> 0,
                 currentCount |-> 0, currentElementIndex |-> 0]

\* AssembleStep ending the page before every element once it has content
AssembleStepEveryElement(variant, lines, eb, budget, s) ==
  LET elementStart == Eb(eb, s.i)
      elementEnd   == Eb(eb, s.i + 1)
      elementCount == ElementSize(variant, lines, elementStart, elementEnd)
  IN IF s.currentCount > 0
     THEN [i |-> s.i + 2,
           pages |-> Append(s.pages,
                       [startLine |-> s.currentPageStart,
                        endLine |-> elementStart,
                        startElement |-> s.currentElementIndex \div 2,
                        endElement |-> s.i \div 2]),
           currentPageStart |-> elementStart,
           currentCount |-> elementCount,
           currentElementIndex |-> s.i]
     ELSE [s EXCEPT !.i = s.i + 2, !.currentCount = s.currentCount + elementCount]

\* AssembleStep with the page break before the last line of the element
AssembleStepBreakInside(variant, lines, eb, budget, s) ==
  LET elementStart == Eb(eb, s.i)
      elementEnd   == Eb(eb, s.i + 1)
      elementCount == ElementSize(variant, lines, elementStart, elementEnd)
  IN IF s.currentCount + elementCount > budget /\ s.currentCount > 0
     THEN [i |-> s.i + 2,
           pages |-> Append(s.pages,
                       [startLine |-> s.currentPageStart,
                        endLine |-> elementEnd - 1,
                        startElement |-> s.currentElementIndex \div 2,
                        endElement |-> s.i \div 2]),
           currentPageStart |-> elementEnd - 1,
           currentCount |-> elementCount,
           currentElementIndex |-> s.i]
     ELSE [s EXCEPT !.i = s.i + 2, !.currentCount = s.currentCount + elementCount]

\* AssembleStep testing the page's count without the element to be added
AssembleStepLateBreak(variant, lines, eb, budget, s) ==
  LET elementStart == Eb(eb, s.i)
      elementEnd   == Eb(eb, s.i + 1)
      elementCount == ElementSize(variant, lines, elementStart, elementEnd)
  IN IF s.currentCount > budget /\ s.currentCount > 0
     THEN [i |-> s.i + 2,
           pages |-> Append(s.pages,
                       [startLine |-> s.currentPageStart,
                        endLine |-> elementStart,
                        startElement |-> s.currentElementIndex \div 2,
                        endElement |-> s.i \div 2]),
           currentPageStart |-> elementStart,
           currentCount |-> elementCount,
           currentElementIndex |-> s.i]
     ELSE [s EXCEPT !.i = s.i + 2, !.currentCount = s.currentCount + elementCount]

\* AssembleStep breaking the page already when the budget is reached
AssembleStepAtBudget(variant, lines, eb, budget, s) ==
  LET elementStart == Eb(eb, s.i)
      elementEnd   == Eb(eb, s.i + 1)
      elementCount == ElementSize(variant, lines, elementStart, elementEnd)
  IN IF s.currentCount + elementCount >= budget /\ s.currentCount > 0
     THEN [i |-> s.i + 2,
           pages |-> Append(s.pages,
                       [startLine |-> s.currentPageStart,
                        endLine |-> elementStart,
                        startElement |-> s.currentElementIndex \div 2,
                        endElement |-> s.i \div 2]),
           currentPageStart |-> elementStart,
           currentCount |-> elementCount,
           currentElementIndex |-> s.i]
     ELSE [s EXCEPT !.i = s.i + 2, !.currentCount = s.currentCount + elementCount]

\* one iteration of the page-assembly loop, at boundary index s.i
AssembleStep(variant, lines, eb, budget, s) ==
  LET elementStart == Eb(eb, s.i)
      elementEnd   == Eb(eb, s.i + 1)
      elementCount == ElementSize(variant, lines, elementStart, elementEnd)
  IN IF s.currentCount + elementCount > budget /\ s.currentCount > 0
     THEN [i |-> s.i + 2,
           pages |-> Append(s.pages,
                       [startLine |-> s.currentPageStart,
                        endLine |-> elementStart,
                        startElement |-> s.currentElementIndex \div 2,
                        endElement |-> s.i \div 2]),
           currentPageStart |-> elementStart,
           currentCount |-> elementCount,
           currentElementIndex |-> s.i]
     ELSE [s EXCEPT !.i = s.i + 2, !.currentCount = s.currentCount + elementCount]

\* "Add final page"
AssembleEnd(lines, eb, s) ==
  IF s.currentCount > 0
  THEN Append(s.pages,
         [startLine |-> s.currentPageStart,
          endLine |-> Len(lines),
          startElement |-> s.currentElementIndex \div 2,
          endElement |-> Len(eb) \div 2])
  ELSE s.pages

RECURSIVE AssembleLoop(_, _, _, _, _)
AssembleLoop(variant, lines, eb, budget, s) ==
  IF s.i < Len(eb)
  THEN AssembleLoop(variant, lines, eb, budget,
                    AssembleStep(variant, lines, eb, budget, s))
  ELSE s

Pages(variant, lines, budget) ==
  LET eb == ElementBoundaries(lines)
  IN AssembleEnd(lines, eb, AssembleLoop(variant, lines, eb, budget, AssembleInit))

\* ----------------------------------------------------- page selection
Max2(a, b) == IF a > b THEN a ELSE b
Min2(a, b) == IF a < b THEN a ELSE b

\* pages.length || 1
TotalPages(pages) == IF Len(pages) = 0 THEN 1 ELSE Len(pages)

\* ActualPage without the lower clamp
ActualPageNoLowerClamp(pageNumber, totalPages) == Min2(pageNumber, totalPages)

\* Math.min(Math.max(1, pageNumber), totalPages)
ActualPage(pageNumber, totalPages) == Min2(Max2(1, pageNumber), totalPages)

\* lines.slice(startLine, endLine)
Slice(lines, from, to) == [k \in 1..(to - from) |-> lines[from + k]]

\* ------------------------------------------------- context breadcrumb
\* the backwards loop from line i: it stops (break) at the first line it
\* meets that is non-blank and indented less than firstLineIndent, and quotes
\* it; << >> when it runs down to line 0 without stopping
Stops(lines, j, firstLineIndent) ==
  Trimmed(At(lines, j)) /\ LeadingSpaces(At(lines, j)) < firstLineIndent

\* ScanBack scanning forwards: it quotes the first such line of the text
ScanBackFarthest(lines, i, firstLineIndent) ==
  IF \E j \in 0..i : Stops(lines, j, firstLineIndent)
  THEN LET j == CHOOSE j \in 0..i :
                  /\ Stops(lines, j, firstLineIndent)
                  /\ \A k \in 0..(j - 1) : ~Stops(lines, k, firstLineIndent)
       IN << At(lines, j) >>
  ELSE << >>

ScanBack(lines, i, firstLineIndent) ==
  IF \E j \in 0..i : Stops(lines, j, firstLineIndent)
  THEN LET j == CHOOSE j \in 0..i :
                  /\ Stops(lines, j, firstLineIndent)
                  /\ \A k \in (j + 1)..i : ~Stops(lines, k, firstLineIndent)
       IN << At(lines, j) >>
  ELSE << >>

\* contextPrefix: the quoted ancestor line, if any
ContextPrefix(lines, pageInfo) ==
  IF pageInfo.startLine > 0
  THEN ScanBack(lines, pageInfo.startLine - 1,
                LeadingSpaces(At(lines, pageInfo.startLine)))
  ELSE << >>

\* ------------------------------------------------------ trailing banner
\* Banner counting the remaining elements from the start of this page
BannerRemainingFromStart(eb, pageInfo, actualPage, totalPages) ==
  IF actualPage < totalPages
  THEN << [page |-> actualPage, of |-> totalPages,
           shown |-> pageInfo.endElement - pageInfo.startElement,
           remaining |-> (Len(eb) \div 2) - pageInfo.startElement,
           next |-> actualPage + 1] >>
  ELSE << >>

Banner(eb, pageInfo, actualPage, totalPages) ==
  IF actualPage < totalPages
  THEN << [page |-> actualPage, of |-> totalPages,
           shown |-> pageInfo.endElement - pageInfo.startElement,
           remaining |-> (Len(eb) \div 2) - pageInfo.endElement,
           next |-> actualPage + 1] >>
  ELSE << >>

\* --------------------------------------------------- the page requested
\* "Get the requested page": pageInfo is << >> when pages[actualPage - 1]
\* is undefined
SelectPage(eb, pages, pageNumber) ==
  LET totalPages == TotalPages(pages)
      actualPage == ActualPage(pageNumber, totalPages)
  IN [eb |-> eb, pages |-> pages, totalPages |-> totalPages,
      actualPage |-> actualPage,
      pageInfo |-> IF actualPage \in 1..Len(pages) THEN << pages[actualPage] >>
                   ELSE << >>]

\* the computation the three paginators share
Paginate(variant, lines, maxTokens, pageNumber) ==
  LET eb     == ElementBoundaries(lines)
      budget == PageBudget(variant, maxTokens)
  IN SelectPage(eb,
                AssembleEnd(lines, eb,
                            AssembleLoop(variant, lines, eb, budget, AssembleInit)),
                pageNumber)

\* ------------------------------------------------------------- outputs
\* A returned text, by its parts:
\*   kind        "none" | "snapshot" | "modal" | "include"
\*   pageState   the text has the '### Page state' / URL / Title header
\*   numbered    the header line reads 'Page N of M'
\*   currentPage, totalPages   N and M (returned as fields by PageSnapshot)
\*   crumb       the '# Context from previous page' block: the quoted line
\*   content     the lines between the yaml fences that come from the tree
\*   banner      the '# MORE CONTENT AVAILABLE' block: its numbers
\*   modal       the lines of '### Modal state'
\*   console     the lines of '### New console messages': the messages
\*   downloads   the lines of '### Downloads'
NoOut == [kind |-> "none", pageState |-> FALSE, numbered |-> FALSE,
          currentPage |-> 0, totalPages |-> 0, crumb |-> << >>,
          content |-> << >>, banner |-> << >>, modal |-> << >>,
          console |-> << >>, downloads |-> << >>]

\* EmptyOut reporting pages.length as the total
EmptyOutNoPages(pageState, numbered) ==
  [NoOut EXCEPT !.kind = "snapshot", !.pageState = pageState,
                !.numbered = numbered, !.currentPage = 1, !.totalPages = 0,
                !.content = << Blank >>]

\* the branch "Empty snapshot": the yaml block holds the one line ''
EmptyOut(pageState, numbered) ==
  [NoOut EXCEPT !.kind = "snapshot", !.pageState = pageState,
                !.numbered = numbered, !.currentPage = 1, !.totalPages = 1,
                !.content = << Blank >>]

PageOut(lines, p, pageState, numbered) ==
  LET pageInfo == p.pageInfo[1]
  IN [NoOut EXCEPT !.kind = "snapshot", !.pageState = pageState,
                   !.numbered = numbered,
                   !.currentPage = p.actualPage, !.totalPages = p.totalPages,
                   !.crumb = ContextPrefix(lines, pageInfo),
                   !.content = Slice(lines, pageInfo.startLine, pageInfo.endLine),
                   !.banner = Banner(p.eb, pageInfo, p.actualPage, p.totalPages)]

\* what PageSnapshot.truncatedText returns for the selected page p
TruncatedTextOut(lines, p) ==
  IF p.pageInfo = << >> THEN EmptyOut(FALSE, TRUE)
  ELSE PageOut(lines, p, FALSE, TRUE)

\* truncatedText moving on by one page for every message in the console log
TruncatedTextOfShifted(lines, maxTokens, pageNumber) ==
  TruncatedTextOut(lines, Paginate("words", lines, maxTokens,
                                   pageNumber + Len(consoleMessages)))

\* PageSnapshot.truncatedText(maxTokens, pageNumber) on _rawSnapshot = lines
TruncatedTextOf(lines, maxTokens, pageNumber) ==
  TruncatedTextOut(lines, Paginate("words", lines, maxTokens, pageNumber))

\* isTruncated of the value PageSnapshot.truncatedText returns
IsTruncated(o) == o.currentPage < o.totalPages

\* a comment line of n words written by a paginator ('# ...')
CommentLine(n) == [indent |-> 0, dash |-> FALSE, words |-> n]

\* contextPrefix.trim() as lines of text: '# Context from previous page:',
\* '# ' + line, '# ...'
CrumbLines(crumb) ==
  IF crumb = << >> THEN << >>
  ELSE << CommentLine(5), CommentLine(1 + WordCount(crumb[1])), CommentLine(2) >>

\* the banner as lines of text: '', '# MORE CONTENT AVAILABLE',
\* '# This is page N of M', '# k elements shown on this page',
\* '# m more elements on remaining pages',
\* '# To load the next page, use browser_snapshot with page: N+1'
BannerLines(banner) ==
  IF banner = << >> THEN << >>
  ELSE << Blank, CommentLine(4), CommentLine(7), CommentLine(7),
          CommentLine(7), CommentLine(11) >>

\* text.match(/```yaml\n([\s\S]*?)\n```/), then yamlMatch ? yamlMatch[1] : ''
\* and .split('\n'): a text without a yaml block gives the one line ''
YamlContent(o) ==
  IF o.kind = "snapshot"
  THEN CrumbLines(o.crumb) \o o.content \o BannerLines(o.banner)
  ELSE << Blank >>

\* Tab.modalStatesMarkdown(): one line per queued modal state
ModalStatesMarkdown(queue) == [k \in 1..Len(queue) |-> queue[k]]

\* _captureFullSnapshot returning early: only the modal-state section
ModalOut(queue) ==
  [NoOut EXCEPT !.kind = "modal", !.modal = ModalStatesMarkdown(queue)]

\* Tab._takeRecentConsoleMarkdown(): one line per message of the recent
\* list, which the method reads and leaves as it is
TakeRecentConsoleMarkdown(recent) == recent

\* Tab._listDownloadsMarkdown(): one line per entry
ListDownloadsMarkdown(list) ==
  [k \in 1..Len(list) |-> IF list[k].finished THEN "Downloaded file"
                          ELSE "Downloading file"]

\* _captureFullSnapshot: result after the two pushes that precede the race
Preamble(recent, list) ==
  [NoOut EXCEPT !.console = TakeRecentConsoleMarkdown(recent),
                !.downloads = ListDownloadsMarkdown(list)]

\* _captureFullSnapshot when the race is won by a modal state: the text
\* holds what was pushed before the race, and no tree
PreambleOut(result) == [result EXCEPT !.kind = "preamble"]

\* the action of the race in _captureFullSnapshot: the page state and the
\* tree are pushed onto result
PushPageState(result, lines) ==
  [result EXCEPT !.kind = "snapshot", !.pageState = TRUE, !.content = lines]

\* _captureFullSnapshot with the tree captured and nothing before it
FullOut(lines) == PushPageState(NoOut, lines)

\* Tab.captureTruncatedSnapshot after _captureFullSnapshot returned fullSnapshot
CaptureTruncatedOf(fullSnapshot, maxTokens, pageNum) ==
  LET lines == YamlContent(fullSnapshot)
      p     == Paginate("tokens", lines, maxTokens, pageNum)
  IN IF p.pageInfo = << >> THEN EmptyOut(TRUE, FALSE)
     ELSE PageOut(lines, p, TRUE, p.totalPages # 1)

\* browser_snapshot handler after tab.captureSnapshot() returned fullSnapshot
HandleOf(fullSnapshot, maxTokens, pageNum) ==
  LET lines == YamlContent(fullSnapshot)
      p     == Paginate("words", lines, maxTokens, pageNum)
  IN IF p.pageInfo = << >> THEN EmptyOut(TRUE, TRUE)
     ELSE PageOut(lines, p, TRUE, TRUE)

\* ------------------------------------------------------------ the state
\* rawSnapshot       the tree page._snapshotForAI() returns, as lines
\* truncateSnapshot  context.config.truncateSnapshot
\* modalStates       Tab._modalStates
\* listener          a TabEvents.modalState listener of a race is registered
\* pc                where the tool call in flight stands:
\*                   "idle", "import" (awaiting import('js-tiktoken')),
\*                   "capturing" (awaiting the race in _captureFullSnapshot),
\*                   "done" (returned, out is the result)
\* call              the call in flight and its arguments
\* out               the text the call returned
\* loop              the locals of a pagination run step by step
\* consoleMessages, recentConsoleMessages, requests, downloads
\*                   Tab._consoleMessages, _recentConsoleMessages, _requests
\*                   (request -> "null" | "response") and _downloads
\* pageEx            the page of the Tab, as the engine has it
\* onPageClose       the calls of this._onPageClose(this) so far
\* actions           the actions handed to _raceAgainstModalStates
\* op                the waitForCompletion, click, refLocators or navigate
\*                   call in flight; pc then also takes "locating",
\*                   "located", "racing", "goto", "grace", "settle", "loadState"
\* call: op and the arguments given (hasParams, argTokens), the effective
\* budget maxTokens and page pageNum, truncated (the paginating path is
\* taken), toolPage (the page asked of the browser_snapshot tool), and what
\* happened: modalAtCall (a modal state was queued at the call),
\* treeCaptured (_snapshotForAI settled within the call), interrupted (what
\* the race of _captureFullSnapshot yielded when a modal state won it:
\* << m >>, a value the method does not use), again (the call repeats the
\* call before it)
NoCall == [op |-> "none", hasParams |-> FALSE, argTokens |-> 0,
           maxTokens |-> 0, pageNum |-> 0, truncated |-> FALSE,
           toolPage |-> 0, modalAtCall |-> FALSE, treeCaptured |-> FALSE,
           interrupted |-> << >>, again |-> FALSE]

\* EffectiveMaxTokens ignoring the argument
EffectiveMaxTokensConfigOnly(hasParams, maxTokensArg, config) == config

\* truncateParams?.maxTokens ?? this.context.config.truncateSnapshot
EffectiveMaxTokens(hasParams, maxTokensArg, config) ==
  IF hasParams THEN maxTokensArg ELSE config

\* truncateParams?.pageNum || 1
EffectivePageNum(hasParams, pageNumArg) ==
  IF hasParams /\ pageNumArg # 0 THEN pageNumArg ELSE 1

\* op: a call on the Tab's action surface and what its caller has seen.
\*   name     "none" | "refLocators" | "click" | "waitForCompletion" | "navigate"
\*   params   the references asked of refLocators
\*   locators the references refLocators returned locators for
\*   race     what _raceAgainstModalStates yielded: << >> while it has not
\*            returned, << m >> for the ModalState m, << Undefined >>
\*   outcome  "pending" | "returned" | "threw"
\*   error    the message of the error caught or thrown ("none": no error)
\*   invoked  the action callback of the race was invoked
\*   download the page.waitForEvent('download') of navigate: "none",
\*            "waiting", "download" (resolved by the event), "undefined"
\*            (it gave up and logUnhandledError swallowed the error)
\*   snapshot the references in the snapshot refLocators captured
\*   value    what the call resolved to for its caller
\*   history  the references earlier refLocators calls returned locators for
\*   reported the console messages the previous snapshot call reported
\*   schema, format, element   of a browser_evaluate call: the schema of the
\*            tool ("combined": expression or function; "functionOnly"), what
\*            was passed ("expression" | "function"), ref and element given
\*   dialogAtCall a dialog was queued when the call was made
\*   timeout  the callback has armed the timer of params.timeout
\*   elapsed  params.timeout ms have passed since the callback started
\*   settled  the engine has settled the evaluation
\*   result   what response.addResult was given: << >>, << "value" >> or
\*            << m >> for the error message m
\*   tabs, current, tabIndex   of a video tool call: context.tabs() as the
\*            video each open tab has (TRUE: page.video() is there), the
\*            position of the current tab, params.tabIndex (0: not given)
\*   pathRead video.path() was called
\*   copied   fs.promises.copyFile was called
\*   handler  the console listener a browser_evaluate call put on the page
\*            (tab.page.on('console', consoleHandler)) is still registered
Undefined == [type |-> "undefined", id |-> 0]

NoOp == [name |-> "none", params |-> << >>, locators |-> << >>, race |-> << >>,
         outcome |-> "pending", error |-> "none", invoked |-> FALSE,
         download |-> "none", snapshot |-> {}, value |-> << >>, history |-> {},
         reported |-> {}, schema |-> "none", format |-> "none",
         element |-> FALSE, dialogAtCall |-> FALSE, timeout |-> FALSE,
         elapsed |-> FALSE, settled |-> FALSE, result |-> << >>,
         tabs |-> << >>, current |-> 0, tabIndex |-> 0,
         pathRead |-> FALSE, copied |-> FALSE, handler |-> FALSE]

\* actions: the action of the race in flight (current), the actions that lost
\* a race and still run (background), the actions the engine has settled
\* (effects), of started in all; leaked counts the listeners of races that
\* ended with their action rejected, which are still registered on the Tab
NoActions == [current |-> FALSE, background |-> 0, effects |-> 0, started |-> 0,
              leaked |-> 0]

\* pageEx: the engine's side of the Tab (this.page).
\*   refs        the element references in the page now
\*   navigations the navigate calls so far: a request carries the number of
\*               the navigations that preceded it
\*   pending     the requests issued and not yet answered
\*   issued      the number of requests issued so far
\*   stage       per download started, where _downloadStarted stands:
\*               "path" (awaiting outputFile), "saving" (awaiting saveAs),
\*               "saved", "failed"
\*   closed      the close event has fired
\*   links       the downloads the page may still start
NoPage == [refs |-> {}, navigations |-> 0, pending |-> {}, issued |-> 0,
           stage |-> << >>, closed |-> FALSE, links |-> MaxDownloads]

\* the Tab right after its constructor
TabInit ==
  /\ consoleMessages = << >>
  /\ recentConsoleMessages = << >>
  /\ requests = << >>
  /\ downloads = << >>
  /\ pageEx = NoPage
  /\ onPageClose = 0
  /\ actions = NoActions
  /\ op = NoOp

NoLoop == [phase |-> "none", scan |-> ScanInit, asm |-> AssembleInit]

ModalTypes == {"dialog", "fileChooser"}

ModalIds == 1..MaxModal

\* requested page numbers: below, inside and above every possible range
PageRequests == (0 - 1)..(MaxLines + 1)

Budgets == 0..MaxTokens

\* what the caller of Tab.captureSnapshot / captureTruncatedSnapshot gets
Complete(c, fullSnapshot) ==
  IF ~c.truncated THEN fullSnapshot
  ELSE LET t == CaptureTruncatedOf(fullSnapshot, c.maxTokens, c.pageNum)
       IN IF c.op = "handle" THEN HandleOf(t, c.maxTokens, c.toolPage) ELSE t

\* the call returns the text made of fullSnapshot
Finish(c, fullSnapshot) ==
  /\ out' = Complete(c, fullSnapshot)
  /\ pc' = "done"
  /\ listener' = FALSE

\* _captureFullSnapshot up to its first await
BeginFull(c) ==
  IF modalStates # << >>
  THEN /\ Finish(c, ModalOut(modalStates))
       /\ call' = c
  ELSE /\ listener' = TRUE
       /\ pc' = "capturing"
       /\ call' = c
       /\ out' = Preamble(recentConsoleMessages, downloads)

\* PageSnapshot.truncatedText(maxTokens, pageNumber)
TruncatedText ==
  \E maxTokens \in Budgets \ {0}, pageNumber \in PageRequests :
    /\ pc = "idle"
    /\ call' = [NoCall EXCEPT !.op = "truncatedText", !.maxTokens = maxTokens,
                              !.pageNum = pageNumber, !.truncated = TRUE]
    /\ out' = TruncatedTextOf(rawSnapshot, maxTokens, pageNumber)
    /\ pc' = "done"
    /\ UNCHANGED << rawSnapshot, truncateSnapshot, modalStates, listener, loop, tabVars >>

\* Tab.captureTruncatedSnapshot(maxTokens, pageNum) called on a Tab with no
\* modal state queued, and none arriving before it returns
CaptureTruncatedSnapshot ==
  \E maxTokens \in Budgets \ {0}, pageNum \in PageRequests :
    /\ pc = "idle"
    /\ modalStates = << >>
    /\ call' = [NoCall EXCEPT !.op = "captureTruncatedSnapshot",
                              !.hasParams = TRUE, !.argTokens = maxTokens,
                              !.maxTokens = maxTokens, !.pageNum = pageNum,
                              !.truncated = TRUE, !.treeCaptured = TRUE]
    /\ out' = CaptureTruncatedOf(FullOut(rawSnapshot), maxTokens, pageNum)
    /\ pc' = "done"
    /\ UNCHANGED << rawSnapshot, truncateSnapshot, modalStates, listener, loop, tabVars >>

\* Tab.captureSnapshot(truncateParams?) up to its first await
CaptureSnapshot ==
  \E hasParams \in BOOLEAN, maxTokensArg \in Budgets, pageNumArg \in PageRequests :
    LET maxTokens == EffectiveMaxTokens(hasParams, maxTokensArg, truncateSnapshot)
        pageNum   == EffectivePageNum(hasParams, pageNumArg)
        c == [NoCall EXCEPT !.op = "captureSnapshot", !.hasParams = hasParams,
                            !.argTokens = IF hasParams THEN maxTokensArg ELSE 0,
                            !.maxTokens = maxTokens,
                            !.pageNum = pageNum, !.truncated = (maxTokens > 0),
                            !.modalAtCall = (modalStates # << >>)]
    IN /\ pc = "idle"
       /\ IF maxTokens > 0
          THEN /\ pc' = "import"
               /\ call' = c
               /\ UNCHANGED << out, listener >>
          ELSE BeginFull(c)
       /\ UNCHANGED << rawSnapshot, truncateSnapshot, modalStates, loop, tabVars >>

\* browser_snapshot handler up to the first await of tab.captureSnapshot()
SnapshotHandle ==
  \E truncateParam \in BOOLEAN, pageParam \in PageRequests \ {0 - 1} :
    LET maxTokens == truncateSnapshot
        truncate  == truncateParam /\ maxTokens > 0
        pageNum   == IF pageParam # 0 THEN pageParam ELSE 1
    IN /\ pc = "idle"
       /\ IF ~truncate
          THEN /\ out' = [NoOut EXCEPT !.kind = "include"]
               /\ pc' = "done"
               /\ call' = [NoCall EXCEPT !.op = "handle", !.maxTokens = maxTokens,
                                         !.toolPage = pageNum,
                                         !.modalAtCall = (modalStates # << >>)]
          ELSE /\ pc' = "import"
               /\ call' = [NoCall EXCEPT !.op = "handle", !.maxTokens = maxTokens,
                                         !.pageNum = 1, !.toolPage = pageNum,
                                         !.truncated = TRUE,
                                         !.modalAtCall = (modalStates # << >>)]
               /\ out' = out
       /\ UNCHANGED << rawSnapshot, truncateSnapshot, modalStates, listener, loop, tabVars >>

\* captureTruncatedSnapshot: the import settled, _captureFullSnapshot starts
ImportDone ==
  /\ pc = "import"
  /\ BeginFull(call)
  /\ UNCHANGED << rawSnapshot, truncateSnapshot, modalStates, loop, tabVars >>

\* the engine settles _snapshotForAI: the action of the race completes first
SnapshotSettles ==
  /\ pc = "capturing"
  /\ Finish(call, PushPageState(out, rawSnapshot))
  /\ call' = [call EXCEPT !.treeCaptured = TRUE]
  /\ UNCHANGED << rawSnapshot, truncateSnapshot, modalStates, loop, tabVars >>

\* Tab.waitForCompletion resolving to what its race yielded
WaitForCompletionValueOfRace(race) == race

\* Tab.waitForCompletion awaits the race (race is what it yielded) and
\* returns nothing
WaitForCompletionValue(race) == << Undefined >>

\* the action of a race that a modal state won, should the race abort it
LoseRaceAborted(a) == [a EXCEPT !.current = FALSE]

\* Promise.race resolved by the modal state: the action is left running
LoseRace(a) ==
  [a EXCEPT !.current = FALSE, !.background = a.background + 1]

\* this.emit(TabEvents.modalState, modalState): every listener registered with
\* once() is called and is removed by the call
Emit(a) == [a EXCEPT !.leaked = 0]

\* Tab.setModalState: push, then emit to the listener of a race in flight
SetModalState(type) ==
  /\ Len(modalStates) < MaxModal
  /\ \E id \in ModalIds :
       /\ \A k \in 1..Len(modalStates) : modalStates[k].id # id
       /\ \A other \in ModalIds :
            (\A k \in 1..Len(modalStates) : modalStates[k].id # other) => id <= other
       /\ modalStates' = Append(modalStates, [type |-> type, id |-> id])
  /\ IF listener /\ pc = "racing"
     THEN /\ op' = [op EXCEPT !.race = << modalStates'[Len(modalStates')] >>,
                              !.outcome = "returned",
                              !.value = WaitForCompletionValue(
                                          << modalStates'[Len(modalStates')] >>)]
          /\ actions' = Emit(LoseRace(actions))
          /\ pc' = "done"
          /\ listener' = FALSE
          /\ UNCHANGED << out, call >>
     ELSE IF listener
     THEN /\ out' = Complete(call, PreambleOut(out))
          /\ call' = [call EXCEPT !.interrupted =
                                    << modalStates'[Len(modalStates')] >>]
          /\ pc' = "done"
          /\ listener' = FALSE
          /\ actions' = Emit(actions)
          /\ op' = op
     ELSE /\ actions' = Emit(actions)
          /\ UNCHANGED << out, pc, listener, op, call >>
  /\ UNCHANGED << rawSnapshot, truncateSnapshot, loop, sessionVars >>

\* page.on('dialog') -> Tab._dialogShown
DialogShown == SetModalState("dialog")

\* page.on('filechooser')
FileChooserShown == SetModalState("fileChooser")

\* the filter of clearModalState dropping every state of the same type
FilteredByType(states, modalState) ==
  SelectSeq(states, LAMBDA state : state.type # modalState.type)

\* this._modalStates.filter(state => state !== modalState)
Filtered(states, modalState) ==
  SelectSeq(states, LAMBDA state : state # modalState)

\* Tab.clearModalState(modalState), called by the tool that resolves it
ClearModalState ==
  \E k \in 1..Len(modalStates) :
    /\ pc = "idle"
    /\ modalStates' = Filtered(modalStates, modalStates[k])
    /\ UNCHANGED << rawSnapshot, truncateSnapshot, listener, pc, call, out, loop, tabVars >>

\* the console messages the latest snapshot call reported, once the call
\* that returned the text o is over
Reported(before, c, o) ==
  IF c.op \in {"captureSnapshot", "handle"} /\ o.kind # "include"
  THEN {o.console[k] : k \in 1..Len(o.console)}
  ELSE before

\* the tool call is over
Return ==
  /\ pc = "done"
  /\ pc' = "idle"
  /\ call' = NoCall
  /\ out' = NoOut
  /\ op' = [NoOp EXCEPT !.history = op.history,
                        !.reported = Reported(op.reported, call, out)]
  /\ UNCHANGED << rawSnapshot, truncateSnapshot, modalStates, listener, loop,
                  sessionVars, actions >>

\* ------------------------------------------------- the specifications
\* the paginators on every raw text of at most MaxLines lines, no modal state
InitPaginate ==
  /\ rawSnapshot \in RawTexts
  /\ truncateSnapshot = 0
  /\ modalStates = << >>
  /\ listener = FALSE
  /\ pc = "idle"
  /\ call = NoCall
  /\ out = NoOut
  /\ loop = NoLoop
  /\ TabInit

NextPaginate ==
  \/ TruncatedText
  \/ CaptureTruncatedSnapshot
  \/ Return

SpecPaginate == InitPaginate /\ [][NextPaginate]_vars

\* ------------------------------------------- the claims: the paginators
\* a paginating call has returned a page of the tree rawSnapshot
Paginated ==
  /\ pc = "done"
  /\ call.truncated
  /\ call.op \in {"truncatedText", "captureTruncatedSnapshot"}

VariantOf(c) == IF c.op = "truncatedText" THEN "words" ELSE "tokens"

BudgetOf(c) == PageBudget(VariantOf(c), c.maxTokens)

\* what the call c returns when asked for page p of rawSnapshot
ResultFor(c, p) ==
  IF c.op = "truncatedText" THEN TruncatedTextOf(rawSnapshot, c.maxTokens, p)
  ELSE CaptureTruncatedOf(FullOut(rawSnapshot), c.maxTokens, p)

PagesOf(c) == Pages(VariantOf(c), rawSnapshot, BudgetOf(c))

RECURSIVE ConcatContents(_, _)
ConcatContents(c, n) ==
  IF n = 0 THEN << >> ELSE ConcatContents(c, n - 1) \o ResultFor(c, n).content

\* the elements of rawSnapshot as a set of << start, end >> pairs
ElementsOf(lines) ==
  LET eb == ElementBoundaries(lines)
  IN {<< Eb(eb, 2 * k), Eb(eb, 2 * k + 1) >> : k \in 0..(NumElements(eb) - 1)}

\* those of elems that lie within the line range of page
Within(elems, page) ==
  {e \in elems : page.startLine <= e[1] /\ e[2] <= page.endLine}

\* the elements that lie within the line range of page
ElementsOn(lines, page) == Within(ElementsOf(lines), page)

RECURSIVE SumSizes(_, _, _)
SumSizes(variant, lines, elems) ==
  IF elems = {} THEN 0
  ELSE LET e == CHOOSE x \in elems : TRUE
       IN ElementSize(variant, lines, e[1], e[2])
            + SumSizes(variant, lines, elems \ {e})

\* C1: the contents of pages 1..totalPages, one after the other, are the raw
\* line sequence: every line exactly once and in order.
C1_PagesReconstructRaw ==
  Paginated =>
    /\ out = ResultFor(call, out.currentPage)
    /\ ConcatContents(call, out.totalPages) = rawSnapshot

\* C1, where the code keeps it: a raw text with a non-blank line is
\* reproduced by its pages
C1_NonBlankReconstructed ==
  (Paginated /\ \E k \in 1..Len(rawSnapshot) : Trimmed(rawSnapshot[k])) =>
    ConcatContents(call, out.totalPages) = rawSnapshot

\* C2: every element lies within the line range of exactly one page.
C2_ElementOnOnePage ==
  Paginated =>
    LET pages == PagesOf(call)
        elems == ElementsOf(rawSnapshot)
    IN \A e \in elems :
         Cardinality({k \in 1..Len(pages) : e \in Within(elems, pages[k])}) = 1

C2_Witness ==
  /\ Paginated
  /\ out.totalPages >= 2
  /\ \E e \in ElementsOf(rawSnapshot) : e[2] - e[1] >= 2

\* C3: a page is larger than the budget only when it holds exactly one
\* element, and an element larger than the budget is alone on a page that
\* holds all of its lines.
C3_OversizeAlone ==
  Paginated =>
    LET pages == PagesOf(call)
        elems == ElementsOf(rawSnapshot)
        v == VariantOf(call)
    IN /\ \A k \in 1..Len(pages) :
            LET on == Within(elems, pages[k])
            IN SumSizes(v, rawSnapshot, on) > BudgetOf(call)
                 => /\ Cardinality(on) = 1
                    /\ pages[k].endElement - pages[k].startElement = 1
       /\ \A e \in elems :
            ElementSize(v, rawSnapshot, e[1], e[2]) > BudgetOf(call)
              => \E k \in 1..Len(pages) : Within(elems, pages[k]) = {e}

C3_Witness ==
  /\ Paginated
  /\ BudgetOf(call) > 0
  /\ out.totalPages >= 2
  /\ \E e \in ElementsOf(rawSnapshot) :
       /\ ElementSize(VariantOf(call), rawSnapshot, e[1], e[2]) > BudgetOf(call)
       /\ e[2] - e[1] >= 2
  /\ \E k \in 1..Len(PagesOf(call)) :
       Cardinality(ElementsOn(rawSnapshot, PagesOf(call)[k])) >= 2

\* C4: a requested page of 0 or below gives the result of page 1, one above
\* totalPages the result of page totalPages, and 1 <= currentPage <= totalPages.
C4_PageClamped ==
  Paginated =>
    /\ 1 <= out.currentPage /\ out.currentPage <= out.totalPages
    /\ call.pageNum <= 0 => out = ResultFor(call, 1)
    /\ call.pageNum > out.totalPages => out = ResultFor(call, out.totalPages)
    /\ call.pageNum \in 1..out.totalPages => out.currentPage = call.pageNum

C4_Witness ==
  /\ Paginated
  /\ out.totalPages >= 2
  /\ call.pageNum > out.totalPages
  /\ ResultFor(call, 1) # out

\* C5: the empty raw snapshot gives one page with empty content, page 1 of 1
\* and no banner, whatever page is requested.
C5_EmptySnapshot ==
  (Paginated /\ rawSnapshot = << Blank >>) =>
    /\ out.content = << Blank >>
    /\ out.currentPage = 1
    /\ out.totalPages = 1
    /\ out.banner = << >>
    /\ out.crumb = << >>

C5_Witness ==
  /\ Paginated
  /\ rawSnapshot = << Blank >>
  /\ call.pageNum > 1

\* C6: the banner is there exactly when currentPage < totalPages, and it
\* names the page, the total, the elements on this page, the elements on all
\* later pages and the next page.
C6_BannerExact ==
  Paginated =>
    LET pages == PagesOf(call)
        elems == ElementsOf(rawSnapshot)
        later == UNION {Within(elems, pages[k]) :
                          k \in (out.currentPage + 1)..Len(pages)}
        upTo  == UNION {Within(elems, pages[k]) : k \in 1..out.currentPage}
    IN /\ (out.banner # << >>) <=> (out.currentPage < out.totalPages)
       /\ out.banner # << >> =>
            /\ Len(out.banner) = 1
            /\ out.banner[1].page = out.currentPage
            /\ out.banner[1].of = out.totalPages
            /\ out.banner[1].shown =
                 Cardinality(Within(elems, pages[out.currentPage]))
            /\ out.banner[1].remaining = Cardinality(later)
            /\ Cardinality(upTo) + out.banner[1].remaining
                 = Cardinality(elems)
            /\ out.banner[1].next = out.currentPage + 1

C6_Witness ==
  /\ Paginated
  /\ out.banner # << >>
  /\ out.currentPage = 2
  /\ out.banner[1].shown = 2
  /\ out.banner[1].remaining = 1

\* C8: a page that starts after line 0 has a breadcrumb exactly when an
\* earlier non-blank line is indented less than the page's first line, and
\* the breadcrumb is the nearest such line; a page that starts at line 0 has
\* none.
C8_Breadcrumb ==
  Paginated =>
    LET pages == PagesOf(call)
        start == IF Len(pages) = 0 THEN 0 ELSE pages[out.currentPage].startLine
        cands == {j \in 0..(start - 1) :
                    /\ Trimmed(At(rawSnapshot, j))
                    /\ At(rawSnapshot, j).indent < At(rawSnapshot, start).indent}
    IN /\ start = 0 => out.crumb = << >>
       /\ start > 0 =>
            /\ (out.crumb # << >>) <=> (cands # {})
            /\ cands # {} =>
                 \E j \in cands :
                   /\ \A i \in cands : i <= j
                   /\ out.crumb = << At(rawSnapshot, j) >>

C8_Witness ==
  /\ Paginated
  /\ out.crumb # << >>
  /\ \E i, j \in 0..(Len(rawSnapshot) - 1) :
       /\ i < j
       /\ Trimmed(At(rawSnapshot, i))
       /\ At(rawSnapshot, i).indent = 0
       /\ At(rawSnapshot, i) # At(rawSnapshot, j)
       /\ out.crumb = << At(rawSnapshot, j) >>
\* the Tab: a tree of 0..MaxTabLines top-level list items, any configured
\* budget, modal states arriving and being resolved around the snapshot calls
TabTexts ==
  {<< Blank >>} \cup {[k \in 1..n |-> TreeLine(0, TRUE)] : n \in 1..MaxTabLines}

Init ==
  /\ rawSnapshot \in TabTexts
  /\ truncateSnapshot \in Budgets
  /\ modalStates = << >>
  /\ listener = FALSE
  /\ pc = "idle"
  /\ call = NoCall
  /\ out = NoOut
  /\ loop = NoLoop
  /\ TabInit

Next ==
  \/ CaptureSnapshot
  \/ SnapshotHandle
  \/ ImportDone
  \/ SnapshotSettles
  \/ DialogShown
  \/ FileChooserShown
  \/ ClearModalState
  \/ Return

Spec == Init /\ [][Next]_vars

\* --------------------------------------------------- the claims: the Tab
\* C9: captureSnapshot paginates only when the effective budget (the
\* argument if given, else the configured truncateSnapshot) is above 0; with
\* a budget of 0 the captured tree is returned whole, without page numbers
\* and without banner.
C9_PaginatesOnlyWhenPositive ==
  (pc = "done" /\ call.op = "captureSnapshot") =>
    LET effective == IF call.hasParams THEN call.argTokens ELSE truncateSnapshot
    IN /\ (out.numbered \/ out.banner # << >> \/ out.crumb # << >>) => effective > 0
       /\ (effective <= 0 /\ call.treeCaptured) =>
            /\ out.kind = "snapshot"
            /\ out.content = rawSnapshot
            /\ ~out.numbered
            /\ out.banner = << >>

C9_Witness ==
  /\ pc = "done"
  /\ call.op = "captureSnapshot"
  /\ call.hasParams /\ call.argTokens = 0
  /\ truncateSnapshot > 0
  /\ call.treeCaptured
  /\ out.content = rawSnapshot
  /\ Len(CaptureTruncatedOf(FullOut(rawSnapshot), truncateSnapshot, 1).banner) = 1

\* C10: with a modal state queued at the call, captureSnapshot and
\* captureTruncatedSnapshot return only the modal-state description, one line
\* per queued modal state, and the tree is not captured.
C10_ModalOnly ==
  (pc = "done" /\ call.op = "captureSnapshot" /\ call.modalAtCall) =>
    /\ out.kind = "modal"
    /\ Len(out.modal) >= 1
    /\ out.content = << >>
    /\ ~call.treeCaptured

\* C10, the part the code keeps: the tree is not captured, and without
\* truncation the text is the modal-state description
C10_FullPathModalOnly ==
  (pc = "done" /\ call.op = "captureSnapshot" /\ call.modalAtCall) =>
    /\ ~call.treeCaptured
    /\ ~call.truncated => (out.kind = "modal" /\ Len(out.modal) >= 1)

\* the scenario of the truncation test: Sections * ParagraphsPerSection
\* list items of WordsPerParagraph whitespace-separated words each,
\* paginated by PageSnapshot.truncatedText one loop iteration at a time
DefaultMaxTokens == 20000
WordsPerParagraph == 100
ParagraphsPerSection == 10
Sections == 30

ScenarioText ==
  [k \in 1..(Sections * ParagraphsPerSection) |->
     [indent |-> 0, dash |-> TRUE, words |-> WordsPerParagraph]]

\* truncatedText is entered: the lines are split, the first pass starts
TruncatedTextStart ==
  \E pageNumber \in {1, 2} :
    /\ pc = "idle"
    /\ pc' = "running"
    /\ call' = [NoCall EXCEPT !.op = "truncatedText", !.maxTokens = DefaultMaxTokens,
                              !.pageNum = pageNumber, !.truncated = TRUE]
    /\ loop' = [phase |-> "scan", scan |-> ScanInit, asm |-> AssembleInit]
    /\ UNCHANGED << rawSnapshot, truncateSnapshot, modalStates, listener, out, tabVars >>

\* one iteration of the first pass
ScanIteration ==
  /\ pc = "running" /\ loop.phase = "scan"
  /\ loop.scan.i < Len(rawSnapshot)
  /\ loop' = [loop EXCEPT !.scan = ScanStep(rawSnapshot, loop.scan)]
  /\ UNCHANGED << rawSnapshot, truncateSnapshot, modalStates, listener, pc, call, out, tabVars >>

\* the first pass is over: the last element is closed, the second pass starts
ScanFinish ==
  /\ pc = "running" /\ loop.phase = "scan"
  /\ loop.scan.i >= Len(rawSnapshot)
  /\ loop' = [loop EXCEPT !.phase = "assemble",
                !.scan.elementBoundaries = ScanEnd(rawSnapshot, loop.scan),
                !.scan.inElement = FALSE]
  /\ UNCHANGED << rawSnapshot, truncateSnapshot, modalStates, listener, pc, call, out, tabVars >>

\* one iteration of the second pass
AssembleIteration ==
  /\ pc = "running" /\ loop.phase = "assemble"
  /\ loop.asm.i < Len(loop.scan.elementBoundaries)
  /\ loop' = [loop EXCEPT !.asm =
                AssembleStep("words", rawSnapshot, loop.scan.elementBoundaries,
                             MaxWordsPerPage(call.maxTokens), loop.asm)]
  /\ UNCHANGED << rawSnapshot, truncateSnapshot, modalStates, listener, pc, call, out, tabVars >>

\* the second pass is over: the final page is added, the page is selected
\* and the text is built
TruncatedTextFinish ==
  /\ pc = "running" /\ loop.phase = "assemble"
  /\ loop.asm.i >= Len(loop.scan.elementBoundaries)
  /\ LET eb    == loop.scan.elementBoundaries
         pages == AssembleEnd(rawSnapshot, eb, loop.asm)
     IN /\ loop' = [loop EXCEPT !.phase = "none", !.asm.pages = pages]
        /\ out' = TruncatedTextOut(rawSnapshot, SelectPage(eb, pages, call.pageNum))
  /\ pc' = "done"
  /\ UNCHANGED << rawSnapshot, truncateSnapshot, modalStates, listener, call, tabVars >>

InitScenario ==
  /\ rawSnapshot = ScenarioText
  /\ truncateSnapshot = DefaultMaxTokens
  /\ modalStates = << >>
  /\ listener = FALSE
  /\ pc = "idle"
  /\ call = NoCall
  /\ out = NoOut
  /\ loop = NoLoop
  /\ TabInit

NextScenario ==
  \/ TruncatedTextStart
  \/ ScanIteration
  \/ ScanFinish
  \/ AssembleIteration
  \/ TruncatedTextFinish

SpecScenario == InitScenario /\ [][NextScenario]_vars

\* C7: 300 list items of 100 words under maxTokens = 20000 (15000 words a
\* page) make two pages of 150 elements each, and the banner of page 1 names
\* page 2 as the next page.
C7_Scenario ==
  (pc = "done" /\ call.op = "truncatedText") =>
    /\ MaxWordsPerPage(call.maxTokens) = 15000
    /\ out.totalPages = 2
    /\ loop.asm.pages =
         << [startLine |-> 0, endLine |-> 150, startElement |-> 0, endElement |-> 150],
            [startLine |-> 150, endLine |-> 300, startElement |-> 150,
             endElement |-> 300] >>
    /\ NumElements(loop.scan.elementBoundaries) = 300
    /\ call.pageNum = 1 =>
         /\ out.currentPage = 1
         /\ out.content = Slice(rawSnapshot, 0, 150)
         /\ out.banner = << [page |-> 1, of |-> 2, shown |-> 150,
                             remaining |-> 150, next |-> 2] >>
    /\ call.pageNum = 2 =>
         /\ out.currentPage = 2
         /\ out.content = Slice(rawSnapshot, 150, 300)
         /\ out.banner = << >>

C7_Witness ==
  /\ pc = "done"
  /\ call.op = "truncatedText"
  /\ call.pageNum = 1
  /\ Len(rawSnapshot) = 300
  /\ \A k \in 1..300 : WordCount(rawSnapshot[k]) = 100 /\ rawSnapshot[k].dash
  /\ Len(out.content) = 150

\* ------------------------------------------- actions on the Tab: the race
Refs == 1..MaxRefs

\* the params of refLocators: one reference (refLocator) or several
RefParams == UNION {[1..n -> Refs] : n \in 1..MaxParams}

\* the references refLocators looks up, should it keep what it found before
SnapshotRefsCached(o, p) == p.refs \cup o.history

\* await this.page._snapshotForAI() in refLocators: the references of the
\* page as it is when the engine captures it
SnapshotRefs(o, p) == p.refs

\* the tools that act on elements given by reference
ElementTools == {"click", "hover", "drag", "selectOption", "evaluate"}

\* params.map(...) of refLocators looking up its first reference only
ResolveFirstOnly(params, snapshot) ==
  IF params[1] \notin snapshot
  THEN [locators |-> << >>, outcome |-> "threw", error |-> "RefNotFound"]
  ELSE [locators |-> params, outcome |-> "returned", error |-> "none"]

\* params.map(...) of refLocators over the references of the snapshot: the
\* first absent reference throws, and then no locator is returned
Resolve(params, snapshot) ==
  IF \E k \in 1..Len(params) : params[k] \notin snapshot
  THEN [locators |-> << >>, outcome |-> "threw", error |-> "RefNotFound"]
  ELSE [locators |-> params, outcome |-> "returned", error |-> "none"]

\* Tab.refLocators(params) up to its await of _snapshotForAI
RefLocators ==
  \E params \in RefParams :
    /\ pc = "idle"
    /\ pc' = "locating"
    /\ op' = [NoOp EXCEPT !.name = "refLocators", !.params = params,
                          !.history = op.history, !.reported = op.reported]
    /\ UNCHANGED << snapVars, modalStates, listener, sessionVars, actions >>

\* click.handle up to the await of tab.refLocator(params)
ClickHandle ==
  \E ref \in Refs :
    /\ pc = "idle"
    /\ pc' = "locating"
    /\ op' = [NoOp EXCEPT !.name = "click", !.params = << ref >>,
                          !.history = op.history, !.reported = op.reported]
    /\ UNCHANGED << snapVars, modalStates, listener, sessionVars, actions >>

\* hover.handle up to the await of tab.refLocator(params)
HoverHandle ==
  \E ref \in Refs :
    /\ pc = "idle"
    /\ pc' = "locating"
    /\ op' = [NoOp EXCEPT !.name = "hover", !.params = << ref >>,
                          !.history = op.history, !.reported = op.reported]
    /\ UNCHANGED << snapVars, modalStates, listener, sessionVars, actions >>

\* selectOption.handle up to the await of tab.refLocator(params)
SelectOptionHandle ==
  \E ref \in Refs :
    /\ pc = "idle"
    /\ pc' = "locating"
    /\ op' = [NoOp EXCEPT !.name = "selectOption", !.params = << ref >>,
                          !.history = op.history, !.reported = op.reported]
    /\ UNCHANGED << snapVars, modalStates, listener, sessionVars, actions >>

\* drag.handle up to the await of tab.refLocators([start, end])
DragHandle ==
  \E startRef \in Refs, endRef \in Refs :
    /\ pc = "idle"
    /\ pc' = "locating"
    /\ op' = [NoOp EXCEPT !.name = "drag", !.params = << startRef, endRef >>,
                          !.history = op.history, !.reported = op.reported]
    /\ UNCHANGED << snapVars, modalStates, listener, sessionVars, actions >>

\* evaluate.handle with ref and element given, up to the await of
\* tab.refLocator({ref, element})
EvaluateElementHandle ==
  \E ref \in Refs, schema \in {"combined", "functionOnly"} :
    /\ pc = "idle"
    /\ pc' = "locating"
    /\ op' = [NoOp EXCEPT !.name = "evaluate", !.params = << ref >>,
                          !.schema = schema, !.format = "function",
                          !.element = TRUE,
                          !.dialogAtCall =
                            \E k \in 1..Len(modalStates) : modalStates[k].type = "dialog",
                          !.history = op.history, !.reported = op.reported]
    /\ UNCHANGED << snapVars, modalStates, listener, sessionVars, actions >>

\* the engine settles the _snapshotForAI of refLocators
RefSnapshotSettles ==
  /\ pc = "locating"
  /\ LET snapshot == SnapshotRefs(op, pageEx)
         r == Resolve(op.params, snapshot)
     IN /\ op' = [op EXCEPT !.snapshot = snapshot, !.locators = r.locators,
                            !.outcome = IF op.name \in ElementTools /\ r.outcome = "returned"
                                        THEN "pending" ELSE r.outcome,
                            !.error = r.error,
                            !.value = IF op.name = "refLocators" /\ r.outcome = "returned"
                                      THEN << r.locators >> ELSE << >>,
                            !.history = op.history \cup
                                          {r.locators[k] : k \in 1..Len(r.locators)}]
        /\ pc' = IF op.name \in ElementTools /\ r.outcome = "returned"
                 THEN "located" ELSE "done"
  /\ UNCHANGED << snapVars, modalStates, listener, sessionVars, actions >>

\* _raceAgainstModalStates returning the modal state queued last
RaceAgainstModalStatesLatest(o) ==
  IF modalStates # << >>
  THEN /\ op' = [o EXCEPT !.race = << modalStates[Len(modalStates)] >>,
                          !.outcome = "returned",
                          !.value = WaitForCompletionValue(<< modalStates[1] >>)]
       /\ pc' = "done"
       /\ UNCHANGED << listener, actions >>
  ELSE /\ listener' = TRUE
       /\ actions' = [actions EXCEPT !.current = TRUE,
                                     !.started = actions.started + 1]
       /\ op' = [o EXCEPT !.invoked = TRUE]
       /\ pc' = "racing"

\* _raceAgainstModalStates that always runs the action
RaceAgainstModalStatesNoFastPath(o) ==
  /\ listener' = TRUE
  /\ actions' = [actions EXCEPT !.current = TRUE, !.started = actions.started + 1]
  /\ op' = [o EXCEPT !.invoked = TRUE]
  /\ pc' = "racing"

\* Tab.waitForCompletion -> _raceAgainstModalStates up to its await: the
\* queue head at once, or the listener and the action
RaceAgainstModalStates(o) ==
  IF modalStates # << >>
  THEN /\ op' = [o EXCEPT !.race = << modalStates[1] >>, !.outcome = "returned",
                          !.value = WaitForCompletionValue(<< modalStates[1] >>)]
       /\ pc' = "done"
       /\ UNCHANGED << listener, actions >>
  ELSE /\ listener' = TRUE
       /\ actions' = [actions EXCEPT !.current = TRUE,
                                     !.started = actions.started + 1]
       /\ op' = [o EXCEPT !.invoked = TRUE]
       /\ pc' = "racing"

\* click.handle: tab.waitForCompletion(() => locator.click()), and the
\* same call of the other element tools once their locators are there
ClickWaitForCompletion ==
  /\ pc = "located"
  /\ actions.started < MaxActions
  /\ RaceAgainstModalStates(op)
  /\ UNCHANGED << snapVars, modalStates, sessionVars >>

\* Tab.waitForCompletion(callback) called by any other tool
WaitForCompletion ==
  /\ pc = "idle"
  /\ actions.started < MaxActions
  /\ RaceAgainstModalStates([NoOp EXCEPT !.name = "waitForCompletion",
                                        !.history = op.history, !.reported = op.reported])
  /\ UNCHANGED << snapVars, modalStates, sessionVars >>

\* the engine settles the action of the race in flight: the action wins
ActionSettles ==
  /\ pc = "racing"
  /\ actions.current
  /\ actions' = [actions EXCEPT !.current = FALSE, !.effects = actions.effects + 1]
  /\ listener' = FALSE
  /\ op' = [op EXCEPT !.race = << Undefined >>, !.outcome = "returned",
                      !.value = WaitForCompletionValue(<< Undefined >>)]
  /\ pc' = "done"
  /\ UNCHANGED << snapVars, modalStates, sessionVars >>

\* the engine settles an action whose race a modal state had won: its
\* then() removes a listener that is no longer registered
BackgroundActionSettles ==
  /\ actions.background > 0
  /\ actions' = [actions EXCEPT !.background = actions.background - 1,
                                !.effects = actions.effects + 1]
  /\ UNCHANGED << snapVars, modalStates, listener, pc, sessionVars, op >>

\* the page changes under the Tab: elements come and go
DomMutates ==
  \E refs \in SUBSET Refs :
    /\ refs # pageEx.refs
    /\ pageEx' = [pageEx EXCEPT !.refs = refs]
    /\ UNCHANGED << snapVars, modalStates, listener, pc, actions, op,
                    consoleMessages, recentConsoleMessages, requests, downloads,
                    onPageClose >>

InitAction ==
  /\ rawSnapshot = << Blank >>
  /\ truncateSnapshot = 0
  /\ modalStates = << >>
  /\ listener = FALSE
  /\ pc = "idle"
  /\ call = NoCall
  /\ out = NoOut
  /\ loop = NoLoop
  /\ consoleMessages = << >>
  /\ recentConsoleMessages = << >>
  /\ requests = << >>
  /\ downloads = << >>
  /\ pageEx = [NoPage EXCEPT !.refs = {1}]
  /\ onPageClose = 0
  /\ actions = NoActions
  /\ op = NoOp

\* the race: clicks and other actions against dialogs and file choosers, on
\* a page that holds the one element of reference 1
NextAction ==
  \/ ClickHandle
  \/ RefSnapshotSettles
  \/ ClickWaitForCompletion
  \/ WaitForCompletion
  \/ ActionSettles
  \/ BackgroundActionSettles
  \/ DialogShown
  \/ FileChooserShown
  \/ ClearModalState
  \/ Return

SpecAction == InitAction /\ [][NextAction]_vars

\* refLocators on a page whose elements come and go
InitRefs ==
  /\ rawSnapshot = << Blank >>
  /\ truncateSnapshot = 0
  /\ modalStates = << >>
  /\ listener = FALSE
  /\ pc = "idle"
  /\ call = NoCall
  /\ out = NoOut
  /\ loop = NoLoop
  /\ consoleMessages = << >>
  /\ recentConsoleMessages = << >>
  /\ requests = << >>
  /\ downloads = << >>
  /\ pageEx \in {[NoPage EXCEPT !.refs = refs] : refs \in SUBSET Refs}
  /\ onPageClose = 0
  /\ actions = NoActions
  /\ op = NoOp

NextRefs ==
  \/ RefLocators
  \/ RefSnapshotSettles
  \/ DomMutates
  \/ Return

SpecRefs == InitRefs /\ [][NextRefs]_vars

\* ------------------------------------------- the claims: the race
\* a step in which the race in flight is ended by a modal state
ModalWinsRace == pc = "racing" /\ Len(modalStates') > Len(modalStates)

RemoveAt(q, k) == [i \in 1..(Len(q) - 1) |-> IF i < k THEN q[i] ELSE q[i + 1]]

\* C12: the modal queue keeps arrival order: a step leaves it alone, appends
\* one new entry at the tail, or (clearModalState) removes exactly one entry,
\* keeping all others in their order, and nothing else changes in that step.
C12_QueueKeepsOrder ==
  [][\/ modalStates' = modalStates
     \/ /\ Len(modalStates') = Len(modalStates) + 1
        /\ SubSeq(modalStates', 1, Len(modalStates)) = modalStates
        /\ \A k \in 1..Len(modalStates) : modalStates[k] # modalStates'[Len(modalStates')]
     \/ /\ \E k \in 1..Len(modalStates) : modalStates' = RemoveAt(modalStates, k)
        /\ pc = "idle"
        /\ UNCHANGED << pc, op, actions, listener, sessionVars, snapVars >>]_vars

C12_Witness ==
  /\ Len(modalStates) = 2
  /\ modalStates[1].id > modalStates[2].id
  /\ modalStates[1].type = modalStates[2].type

\* C13: when the queue is not empty as the race helper starts (and so as
\* waitForCompletion starts), it yields the queue head in that same step and
\* without error; the action callback is not invoked and no listener is
\* registered.
C13_ShortCircuit ==
  [][(/\ pc \in {"idle", "located"}
      /\ pc' \in {"racing", "done"}
      /\ op'.name \in {"click", "waitForCompletion"}
      /\ modalStates # << >>) =>
        /\ pc' = "done"
        /\ op'.race = << modalStates[1] >>
        /\ op'.outcome = "returned"
        /\ op'.error = "none"
        /\ ~op'.invoked
        /\ actions' = actions
        /\ ~listener'
        /\ modalStates' = modalStates]_vars

C13_Witness ==
  /\ pc = "done"
  /\ op.name = "click"
  /\ ~op.invoked
  /\ Len(modalStates) = 2
  /\ op.race = << modalStates[1] >>

\* C14: the action that loses the race to a modal state is not aborted: it
\* stays in flight, every action started is in flight or has had its effect,
\* and when the engine settles it its effect takes place while the caller,
\* who has the modal outcome, sees nothing change.
C14_LoserKeepsRunning ==
  /\ [](actions.started
          = actions.effects + actions.background + (IF actions.current THEN 1 ELSE 0))
  /\ [][/\ ModalWinsRace => actions'.background = actions.background + 1
        /\ actions'.background < actions.background =>
             /\ actions'.effects = actions.effects + 1
             /\ UNCHANGED << pc, op, listener, modalStates, out >>]_vars

C14_Witness ==
  /\ pc = "done"
  /\ op.invoked
  /\ op.race # << >>
  /\ op.race # << Undefined >>
  /\ actions.started = 1
  /\ actions.effects = 1

\* C18: refLocator(s) looks every reference up in a snapshot captured in that
\* call: if any reference is absent from the page then, the call throws the
\* 'Ref ... not found' error and returns no locator at all, also for a
\* reference that an earlier call resolved; otherwise it returns a locator
\* for every reference.
C18_StaleRefFails ==
  [][(pc = "locating" /\ pc' # "locating") =>
        IF \E k \in 1..Len(op.params) : op.params[k] \notin pageEx.refs
        THEN /\ pc' = "done"
             /\ op'.outcome = "threw"
             /\ op'.error = "RefNotFound"
             /\ op'.locators = << >>
             /\ op'.value = << >>
        ELSE /\ op'.outcome # "threw"
             /\ op'.error = "none"
             /\ op'.locators = op.params]_vars

C18_Witness ==
  /\ pc = "done"
  /\ op.name = "refLocators"
  /\ op.outcome = "threw"
  /\ Len(op.params) = 2
  /\ op.params[1] \in op.snapshot
  /\ op.params[2] \notin op.snapshot
  /\ op.params[2] \in op.history

\* ------------------------------------- the Tab session: events and navigate
raceVars == << modalStates, listener, actions >>

\* this._requests.set(request, response): response is "null" or "response"
MapSet(map, request, response) ==
  [r \in (DOMAIN map) \cup {request} |-> IF r = request THEN response ELSE map[r]]

\* Tab._clearCollectedArtifacts()
ClearCollectedArtifacts(messages, recent, table) ==
  [consoleMessages |-> << >>, recentConsoleMessages |-> << >>, requests |-> << >>]

\* page.on('console') and page.on('pageerror') -> _handleConsoleMessage
HandleConsoleMessage ==
  LET message == [page |-> pageEx.navigations, n |-> Len(consoleMessages) + 1]
  IN /\ ~pageEx.closed
     /\ Len(consoleMessages) < MaxEntries
     /\ consoleMessages' = Append(consoleMessages, message)
     /\ recentConsoleMessages' = Append(recentConsoleMessages, message)
     /\ UNCHANGED << snapVars, raceVars, pc, op, requests, downloads, pageEx,
                     onPageClose >>

\* page.on('request'): the engine issues a request
RequestEvent ==
  LET request == [id |-> pageEx.issued + 1, page |-> pageEx.navigations]
  IN /\ ~pageEx.closed
     /\ pageEx.issued < MaxEntries
     /\ requests' = MapSet(requests, request, "null")
     /\ pageEx' = [pageEx EXCEPT !.issued = pageEx.issued + 1,
                                 !.pending = pageEx.pending \cup {request}]
     /\ UNCHANGED << snapVars, raceVars, pc, op, consoleMessages,
                     recentConsoleMessages, downloads, onPageClose >>

\* page.on('response'): the response to a request of the engine arrives
ResponseEvent ==
  \E request \in pageEx.pending :
    /\ ~pageEx.closed
    /\ requests' = MapSet(requests, request, "response")
    /\ pageEx' = [pageEx EXCEPT !.pending = pageEx.pending \ {request}]
    /\ UNCHANGED << snapVars, raceVars, pc, op, consoleMessages,
                    recentConsoleMessages, downloads, onPageClose >>

\* the messages page.goto rejects with
GotoErrors == {"net::ERR_ABORTED", "Download is starting", "net::ERR_FAILED"}

\* mightBeDownload that takes every rejection for a download
MightBeDownloadAlways(message) == TRUE

\* mightBeDownload that knows the chromium signature only
MightBeDownloadChromium(message) == message = "net::ERR_ABORTED"

\* e.message.includes('net::ERR_ABORTED') || e.message.includes('Download is starting')
MightBeDownload(message) ==
  message = "net::ERR_ABORTED" \/ message = "Download is starting"

\* Tab.navigate(url) up to the await of page.goto
Navigate ==
  LET cleared == ClearCollectedArtifacts(consoleMessages, recentConsoleMessages,
                                         requests)
  IN /\ pc = "idle"
     /\ pageEx.navigations < MaxNavigations
     /\ consoleMessages' = cleared.consoleMessages
     /\ recentConsoleMessages' = cleared.recentConsoleMessages
     /\ requests' = cleared.requests
     /\ pageEx' = [pageEx EXCEPT !.navigations = pageEx.navigations + 1]
     /\ op' = [NoOp EXCEPT !.name = "navigate", !.download = "waiting",
                           !.history = op.history, !.reported = op.reported]
     /\ pc' = "goto"
     /\ UNCHANGED << snapVars, raceVars, downloads, onPageClose >>

\* page.goto resolves: navigate goes on to waitForLoadState
GotoResolves ==
  /\ pc = "goto"
  /\ ~pageEx.closed
  /\ pc' = "loadState"
  /\ UNCHANGED << snapVars, raceVars, op, sessionVars >>

\* page.goto rejects with message: the catch block of navigate
GotoRejects ==
  \E message \in GotoErrors :
    /\ pc = "goto"
    /\ IF ~MightBeDownload(message) \/ op.download = "undefined"
       THEN /\ op' = [op EXCEPT !.outcome = "threw", !.error = message]
            /\ pc' = "done"
       ELSE IF op.download = "download"
       THEN /\ op' = [op EXCEPT !.error = message]
            /\ pc' = "settle"
       ELSE /\ op' = [op EXCEPT !.error = message]
            /\ pc' = "grace"
    /\ UNCHANGED << snapVars, raceVars, sessionVars >>

\* waitForLoadState('load', { timeout: 5000 }) settles; a timeout is logged
LoadStateSettles ==
  /\ pc = "loadState"
  /\ op' = [op EXCEPT !.outcome = "returned", !.value = << Undefined >>]
  /\ pc' = "done"
  /\ UNCHANGED << snapVars, raceVars, sessionVars >>

\* page.waitForEvent('download') gives up while goto is pending
DownloadWaitExpires ==
  /\ pc = "goto"
  /\ op.download = "waiting"
  /\ op' = [op EXCEPT !.download = "undefined"]
  /\ UNCHANGED << snapVars, raceVars, pc, sessionVars >>

\* the end of the grace window taken for a download: navigate returns
GraceExpiresReturns ==
  /\ pc = "grace"
  /\ op' = [op EXCEPT !.outcome = "returned", !.download = "undefined"]
  /\ pc' = "done"
  /\ UNCHANGED << snapVars, raceVars, sessionVars >>

\* the 3000 ms timer (or the end of waitForEvent) wins the race: throw e
GraceExpires ==
  /\ pc = "grace"
  /\ op' = [op EXCEPT !.outcome = "threw", !.download = "undefined"]
  /\ pc' = "done"
  /\ UNCHANGED << snapVars, raceVars, sessionVars >>

\* the 500 ms delay after the download was seen is over: navigate returns
SettleDelayDone ==
  /\ pc = "settle"
  /\ op' = [op EXCEPT !.outcome = "returned", !.value = << Undefined >>]
  /\ pc' = "done"
  /\ UNCHANGED << snapVars, raceVars, sessionVars >>

\* page.on('download'): _downloadStarted begins and awaits outputFile; the
\* waitForEvent('download') of a navigate in flight resolves
DownloadEvent ==
  /\ ~pageEx.closed
  /\ pageEx.links > 0
  /\ pageEx' = [pageEx EXCEPT !.stage = Append(pageEx.stage, "path"),
                              !.links = pageEx.links - 1]
  /\ IF pc \in {"goto", "grace"} /\ op.download = "waiting"
     THEN /\ op' = [op EXCEPT !.download = "download"]
          /\ pc' = IF pc = "grace" THEN "settle" ELSE pc
     ELSE UNCHANGED << op, pc >>
  /\ UNCHANGED << snapVars, raceVars, consoleMessages, recentConsoleMessages,
                  requests, downloads, onPageClose >>

\* the entry of _downloadStarted, should it be born finished
NewEntryFinished(id) == [id |-> id, finished |-> TRUE]

\* const entry = { download, finished: false, outputFile }
NewEntry(id) == [id |-> id, finished |-> FALSE]

\* _downloadStarted: outputFile resolved, the entry is pushed, saveAs starts
OutputFileResolved ==
  \E id \in 1..Len(pageEx.stage) :
    /\ pageEx.stage[id] = "path"
    /\ downloads' = Append(downloads, NewEntry(id))
    /\ pageEx' = [pageEx EXCEPT !.stage[id] = "saving"]
    /\ UNCHANGED << snapVars, raceVars, pc, op, consoleMessages,
                    recentConsoleMessages, requests, onPageClose >>

\* _downloadStarted: download.saveAs resolved, entry.finished = true
SaveAsSettles ==
  \E id \in 1..Len(pageEx.stage) :
    /\ pageEx.stage[id] = "saving"
    /\ downloads' = [k \in 1..Len(downloads) |->
                       IF downloads[k].id = id
                       THEN [downloads[k] EXCEPT !.finished = TRUE]
                       ELSE downloads[k]]
    /\ pageEx' = [pageEx EXCEPT !.stage[id] = "saved"]
    /\ UNCHANGED << snapVars, raceVars, pc, op, consoleMessages,
                    recentConsoleMessages, requests, onPageClose >>

\* _downloadStarted: download.saveAs rejected, the entry stays as it is
SaveAsFails ==
  \E id \in 1..Len(pageEx.stage) :
    /\ pageEx.stage[id] = "saving"
    /\ pageEx' = [pageEx EXCEPT !.stage[id] = "failed"]
    /\ UNCHANGED << snapVars, raceVars, pc, op, consoleMessages,
                    recentConsoleMessages, requests, downloads, onPageClose >>

\* _onClose that does not tell the Context
NotifyNever(n) == n

\* this._onPageClose(this): n notifications so far
Notify(n) == n + 1

\* page.on('close') -> Tab._onClose
PageClose ==
  LET cleared == ClearCollectedArtifacts(consoleMessages, recentConsoleMessages,
                                         requests)
  IN /\ ~pageEx.closed
     /\ consoleMessages' = cleared.consoleMessages
     /\ recentConsoleMessages' = cleared.recentConsoleMessages
     /\ requests' = cleared.requests
     /\ onPageClose' = Notify(onPageClose)
     /\ pageEx' = [pageEx EXCEPT !.closed = TRUE, !.pending = {}]
     /\ UNCHANGED << snapVars, raceVars, pc, op, downloads >>

InitSession ==
  /\ rawSnapshot = << Blank >>
  /\ truncateSnapshot = 0
  /\ modalStates = << >>
  /\ listener = FALSE
  /\ pc = "idle"
  /\ call = NoCall
  /\ out = NoOut
  /\ loop = NoLoop
  /\ TabInit

NextSession ==
  \/ HandleConsoleMessage
  \/ RequestEvent
  \/ ResponseEvent
  \/ Navigate
  \/ GotoResolves
  \/ GotoRejects
  \/ LoadStateSettles
  \/ DownloadWaitExpires
  \/ GraceExpires
  \/ SettleDelayDone
  \/ DownloadEvent
  \/ OutputFileResolved
  \/ SaveAsSettles
  \/ SaveAsFails
  \/ PageClose
  \/ DialogShown
  \/ Return

SpecSession == InitSession /\ [][NextSession]_vars

\* the engine and the file system settle what _downloadStarted awaits
SpecSessionLive ==
  /\ SpecSession
  /\ WF_vars(OutputFileResolved)
  /\ WF_vars(SaveAsSettles \/ SaveAsFails)

\* ------------------------------------------- the claims: the Tab session
\* C15 as stated: navigate empties the console log, the recent-console list
\* and the request table before it issues the navigation, and from then on the
\* request table never holds a request issued before the navigate call.
C15_NothingCarriesOver ==
  /\ pc = "goto" =>
       \A k \in 1..Len(consoleMessages) : consoleMessages[k].page = pageEx.navigations
  /\ \A request \in DOMAIN requests : request.page = pageEx.navigations

\* C15, the part the code keeps: the step of navigate that issues the
\* navigation leaves the three collections empty
C15_NavigateClears ==
  [][(pc = "idle" /\ pc' = "goto") =>
        /\ consoleMessages' = << >>
        /\ recentConsoleMessages' = << >>
        /\ requests' = << >>]_vars

\* the download signatures of a rejected navigation
DownloadSignatures == {"net::ERR_ABORTED", "Download is starting"}

DownloadNavigated ==
  /\ pc = "done"
  /\ op.name = "navigate"
  /\ op.error \in DownloadSignatures
  /\ op.outcome = "returned"

\* the download list holds an entry that is finished or whose save failed
DownloadListed ==
  \E k \in 1..Len(downloads) :
    downloads[k].finished \/ pageEx.stage[downloads[k].id] = "failed"

C17_OtherErrorPropagates ==
  [][(pc = "goto" /\ pc' # "goto" /\ op'.error \notin DownloadSignatures \cup {"none"}) =>
        /\ pc' = "done"
        /\ op'.outcome = "threw"
        /\ op'.error \in GotoErrors
        /\ modalStates' = modalStates
        /\ downloads' = downloads
        /\ pageEx' = pageEx]_vars

C17_Witness ==
  /\ pc = "done"
  /\ op.name = "navigate"
  /\ op.outcome = "threw"
  /\ op.error = "net::ERR_FAILED"
  /\ op.download = "waiting"
  /\ modalStates # << >>
  /\ downloads # << >>

\* C19: the close event empties the console log, the recent-console list and
\* the request table, leaves the modal queue and the download list as they
\* are, and notifies the Context once: one notification per closed page.
C19_CloseFlushesLogs ==
  /\ [](onPageClose = IF pageEx.closed THEN 1 ELSE 0)
  /\ [][(~pageEx.closed /\ pageEx'.closed) =>
          /\ consoleMessages' = << >>
          /\ recentConsoleMessages' = << >>
          /\ requests' = << >>
          /\ modalStates' = modalStates
          /\ downloads' = downloads
          /\ onPageClose' = onPageClose + 1]_vars

C19_Witness ==
  /\ pageEx.closed
  /\ onPageClose = 1
  /\ pageEx.issued > 0
  /\ requests = << >>
  /\ modalStates # << >>
  /\ downloads # << >>

\* C20: a download record is never removed and never reordered, its finished
\* flag goes from false to true only, and only in the step its save
\* completes; a record whose save has not completed is listed as downloading.
C20_DownloadsAccumulate ==
  /\ [](\A k \in 1..Len(downloads) :
          /\ downloads[k].finished <=> pageEx.stage[downloads[k].id] = "saved"
          /\ pageEx.stage[downloads[k].id] # "saved" =>
               ListDownloadsMarkdown(downloads)[k] = "Downloading file")
  /\ [][/\ Len(downloads') >= Len(downloads)
        /\ \A k \in 1..Len(downloads) :
             /\ downloads'[k].id = downloads[k].id
             /\ downloads[k].finished => downloads'[k].finished
             /\ (downloads'[k].finished /\ ~downloads[k].finished) =>
                  /\ pageEx.stage[downloads[k].id] = "saving"
                  /\ pageEx'.stage[downloads[k].id] = "saved"]_vars

C20_Witness ==
  /\ Len(downloads) = 1
  /\ downloads[1].finished
  /\ pageEx.closed
  /\ pageEx.navigations >= 1
  /\ pc = "goto"

\* ------------------------------------- the claims: the capture interrupted
\* a snapshot call whose race in _captureFullSnapshot a modal state won
Interrupted == pc = "done" /\ call.interrupted # << >>

\* the lines of the tree of the page that the text o shows
TreeLinesIn(o) ==
  {k \in 1..Len(o.content) : Trimmed(o.content[k])}

\* C21: when a modal state arrives while the capture is in flight (the queue
\* was empty when the capture began), the text the snapshot call returns
\* reports that modal state and holds no line of the accessibility tree.
C21_ReportsArrivedModal ==
  Interrupted =>
    /\ \E k \in 1..Len(out.modal) : out.modal[k] = call.interrupted[1]
    /\ TreeLinesIn(out) = {}

\* C21, the part the code keeps: the text holds no line of the tree and the
\* tree was not captured within the call
C21_NoTreeWhenInterrupted ==
  Interrupted => (TreeLinesIn(out) = {} /\ ~call.treeCaptured)

C21_Witness ==
  /\ Interrupted
  /\ call.op = "captureSnapshot"
  /\ ~call.truncated
  /\ out.kind = "preamble"
  /\ out.modal = << >>
  /\ modalStates = call.interrupted
  /\ \E k \in 1..Len(rawSnapshot) : Trimmed(rawSnapshot[k])

\* ------------------------------------------ the snapshot and its preamble
\* the Tab capturing snapshots while the page logs to the console and starts
\* downloads; no modal state arrives
InitCapture ==
  /\ rawSnapshot \in TabTexts
  /\ truncateSnapshot \in Budgets
  /\ modalStates = << >>
  /\ listener = FALSE
  /\ pc = "idle"
  /\ call = NoCall
  /\ out = NoOut
  /\ loop = NoLoop
  /\ TabInit

NextCapture ==
  \/ HandleConsoleMessage
  \/ DownloadEvent
  \/ OutputFileResolved
  \/ SaveAsSettles
  \/ CaptureSnapshot
  \/ ImportDone
  \/ SnapshotSettles
  \/ Return

SpecCapture == InitCapture /\ [][NextCapture]_vars

\* the step on which a Tab.captureSnapshot call that found no modal state
\* gets the tree and returns: out is result as _captureFullSnapshot pushed it
\* before the race, out' the text returned
CaptureReturns ==
  /\ pc = "capturing" /\ pc' = "done"
  /\ call.op = "captureSnapshot"
  /\ call'.treeCaptured

\* C22: with no modal state active, the text of captureTruncatedSnapshot
\* holds the preamble of the full snapshot (the new console messages and the
\* listing of the downloads) and then the paginated tree.
C22_TruncatedKeepsPreamble ==
  [][(CaptureReturns /\ call.truncated) =>
       /\ out'.console = out.console
       /\ out'.downloads = out.downloads
       /\ out'.content =
            CaptureTruncatedOf(FullOut(rawSnapshot), call.maxTokens, call.pageNum).content
    ]_vars

\* C22, the part the code keeps: the untruncated text holds the preamble, and
\* the truncated text the paginated tree
C22_FullKeepsPreamble ==
  [][CaptureReturns =>
       /\ ~call.truncated =>
            /\ out'.console = out.console
            /\ out'.downloads = out.downloads
            /\ out'.content = rawSnapshot
       /\ call.truncated =>
            out'.content =
              CaptureTruncatedOf(FullOut(rawSnapshot), call.maxTokens, call.pageNum).content
    ]_vars

C22_Witness ==
  /\ pc = "done"
  /\ call.op = "captureSnapshot"
  /\ call.truncated /\ call.treeCaptured
  /\ recentConsoleMessages # << >>
  /\ downloads # << >>
  /\ out.console = << >>
  /\ out.downloads = << >>
  /\ out.content = rawSnapshot
  /\ Trimmed(rawSnapshot[1])

\* an untruncated snapshot text, which shows the recent console list
ReportsConsole ==
  /\ pc = "done"
  /\ call.op = "captureSnapshot"
  /\ ~call.truncated
  /\ out.kind = "snapshot"

\* C23: the recent console list a snapshot reports holds the messages that
\* arrived since the previous snapshot capture: a message the previous
\* snapshot reported is not reported again.
C23_ReportedOnce ==
  ReportsConsole =>
    /\ \A k \in 1..Len(out.console) : out.console[k] \notin op.reported
    /\ \A k \in 1..Len(out.console) :
         \E j \in 1..Len(consoleMessages) : consoleMessages[j] = out.console[k]

\* C23, the part the code keeps: what is reported is in the console log
C23_ReportedFromLog ==
  ReportsConsole =>
    \A k \in 1..Len(out.console) :
      \E j \in 1..Len(consoleMessages) : consoleMessages[j] = out.console[k]

C23_Witness ==
  /\ ReportsConsole
  /\ op.reported # {}
  /\ \A k \in 1..Len(out.console) : out.console[k] \in op.reported
  /\ Len(out.console) = Len(consoleMessages)

\* ------------------------------------------------------ browser_evaluate
\* the two schemas of the tool and what a call passes
Schemas == {"combined", "functionOnly"}

Formats(schema) ==
  IF schema = "combined" THEN {"expression", "function"} ELSE {"function"}

\* Tab._javaScriptBlocked(): a dialog is queued
JavaScriptBlocked(states) ==
  \E k \in 1..Len(states) : states[k].type = "dialog"

\* the callback races the evaluation against a timer of params.timeout: the
\* combined schema does so for a page evaluation given as an expression (a
\* call with function only, and an element evaluation, are awaited as they
\* are); the function-only schema does so always
HasTimeout(schema, format, element) ==
  IF schema = "combined" THEN ~element /\ format = "expression" ELSE TRUE

TimedOut == "Evaluation timed out after <timeout>ms"

\* the callback whose timer fired, should it drop the rejection
TimeoutOutcomeSwallowed(schema, element) ==
  [outcome |-> "returned", error |-> "none", result |-> << >>]

\* the callback whose timer fired: the combined schema catches the
\* rejection and adds a result of type error carrying the message, the
\* function-only schema rethrows it (page) or never catches it (element)
TimeoutOutcome(schema, element) ==
  IF schema = "combined"
  THEN [outcome |-> "returned", error |-> "none", result |-> << TimedOut >>]
  ELSE [outcome |-> "threw", error |-> TimedOut, result |-> << >>]

\* evaluate.handle of a page evaluation up to the await of
\* tab.waitForCompletion(callback)
EvaluateHandle ==
  \E schema \in Schemas :
    \E format \in Formats(schema) :
      /\ pc = "idle"
      /\ actions.started < MaxActions
      /\ RaceAgainstModalStates(
           [NoOp EXCEPT !.name = "evaluate", !.schema = schema, !.format = format,
                        !.handler = TRUE,
                        !.dialogAtCall = JavaScriptBlocked(modalStates),
                        !.timeout = modalStates = << >> /\ HasTimeout(schema, format, FALSE),
                        !.history = op.history, !.reported = op.reported])
      /\ UNCHANGED << snapVars, modalStates, sessionVars >>

\* the engine settles the evaluation before the timer fires: the callback
\* adds the result and the action wins the race
EvaluationSettles ==
  /\ pc = "racing"
  /\ op.name = "evaluate"
  /\ actions.current
  /\ actions' = [actions EXCEPT !.current = FALSE, !.effects = actions.effects + 1]
  /\ listener' = FALSE
  /\ op' = [op EXCEPT !.race = << Undefined >>, !.outcome = "returned",
                      !.handler = FALSE,
                      !.settled = TRUE, !.result = << "value" >>,
                      !.value = WaitForCompletionValue(<< Undefined >>)]
  /\ pc' = "done"
  /\ UNCHANGED << snapVars, modalStates, sessionVars >>

\* the engine settles the evaluation of a call that a modal state has ended:
\* the callback, which nothing awaits, removes the console handler and adds
\* its result
EvaluationSettlesLate ==
  /\ pc = "done"
  /\ op.name = "evaluate" /\ ~op.element
  /\ op.invoked /\ ~op.settled /\ op.handler
  /\ actions.background > 0
  /\ actions' = [actions EXCEPT !.background = actions.background - 1,
                                !.effects = actions.effects + 1]
  /\ op' = [op EXCEPT !.handler = FALSE, !.settled = TRUE,
                      !.result = << "value" >>]
  /\ UNCHANGED << snapVars, modalStates, listener, pc, sessionVars >>

\* the race ends with action() rejected: then() does not run its callback,
\* which holds the only this.off(...), so the listener stays on the Tab
RaceRejected(a) == [a EXCEPT !.leaked = a.leaked + 1]

\* params.timeout ms pass with a page evaluation not settled. With the call
\* still awaiting: an armed timer rejects and the call ends as TimeoutOutcome
\* says, the evaluation left running in the page; with no timer the call
\* goes on waiting. With the race already won by a modal state the call has
\* returned and nothing awaits the callback, whose catch block still removes
\* the console handler when its timer fires.
TimeoutElapses ==
  /\ op.name = "evaluate" /\ ~op.element
  /\ op.invoked /\ ~op.settled /\ ~op.elapsed
  /\ pc \in {"racing", "done"}
  /\ IF pc = "racing" /\ op.timeout
     THEN LET t == TimeoutOutcome(op.schema, op.element)
          IN /\ op' = [op EXCEPT !.elapsed = TRUE, !.outcome = t.outcome,
                                 !.handler = FALSE,
                                 !.error = t.error, !.result = t.result,
                                 !.race = IF t.outcome = "returned"
                                          THEN << Undefined >> ELSE << >>,
                                 !.value = IF t.outcome = "returned"
                                           THEN WaitForCompletionValue(<< Undefined >>)
                                           ELSE << >>]
             /\ actions' = IF t.outcome = "returned" THEN LoseRace(actions)
                           ELSE RaceRejected(LoseRace(actions))
             /\ listener' = FALSE
             /\ pc' = "done"
     ELSE /\ op' = [op EXCEPT !.elapsed = TRUE,
                              !.handler = op.handler /\ ~(pc = "done" /\ op.timeout)]
          /\ UNCHANGED << actions, listener, pc >>
  /\ UNCHANGED << snapVars, modalStates, sessionVars >>

\* browser_evaluate calls on a page that logs to the console and opens
\* dialogs, which the dialog tool resolves between the calls
InitEvaluate == InitAction

NextEvaluate ==
  \/ EvaluateHandle
  \/ EvaluationSettles
  \/ EvaluationSettlesLate
  \/ TimeoutElapses
  \/ BackgroundActionSettles
  \/ HandleConsoleMessage
  \/ DialogShown
  \/ ClearModalState
  \/ Return

SpecEvaluate == InitEvaluate /\ [][NextEvaluate]_vars

\* --------------------------------------- the claims: browser_evaluate
\* a browser_evaluate call that was made with a dialog queued has returned
\* or thrown
EvaluatedUnderDialog ==
  pc = "done" /\ op.name = "evaluate" /\ op.dialogAtCall

\* C24: a browser_evaluate call made while a dialog modal state is queued
\* does not fail and still attempts the evaluation: the callback passed to
\* waitForCompletion is invoked.
C24_StillAttempted ==
  EvaluatedUnderDialog => (op.outcome = "returned" /\ op.invoked)

\* C24, the part the code keeps: the call does not fail; it returns with the
\* callback not invoked and no result added
C24_ReturnsUnattempted ==
  EvaluatedUnderDialog =>
    /\ op.outcome = "returned" /\ op.error = "none"
    /\ ~op.invoked
    /\ op.result = << >>
    /\ op.race = << modalStates[1] >>

C24_Witness ==
  /\ EvaluatedUnderDialog
  /\ op.outcome = "returned"
  /\ ~op.invoked
  /\ actions.started = 0

\* the outcome of a browser_evaluate call is an error outcome carrying the
\* timeout message: thrown, or added as the result of type error
TimeoutReported(o) ==
  \/ o.outcome = "threw" /\ o.error = TimedOut
  \/ o.outcome = "returned" /\ o.result = << TimedOut >>

\* the timeout of a page evaluation has expired with the evaluation not
\* settled
Expired == op.name = "evaluate" /\ ~op.element /\ op.elapsed /\ ~op.settled

\* the step on which the timeout of a page evaluation expires
Expires == ~op.elapsed /\ op'.elapsed /\ op.name = "evaluate" /\ ~op.element

\* the Tab's console log, request table, modal queue and download list
collections ==
  << consoleMessages, recentConsoleMessages, requests, modalStates, downloads >>

\* C27 as stated: when a page evaluation has not settled at the expiry of
\* its timeout, the outcome of the call is an error outcome carrying
\* 'Evaluation timed out after <timeout>ms'.
C27_TimeoutIsError ==
  Expired => TimeoutReported(op)

\* C27: when a page evaluation that runs under the timer (an expression, or
\* any page evaluation of the function-only schema) has not settled at the
\* expiry of its timeout and no modal state has ended the call before, the
\* outcome of the call is an error outcome carrying the timeout message; the
\* expiry changes none of the Tab's collections, and the call is over, so
\* that the Tab takes the next call.
C27_TimeoutUnderTimer ==
  /\ [](( /\ Expired
          /\ HasTimeout(op.schema, op.format, op.element)
          /\ op.race \in {<< >>, << Undefined >>} ) =>
          (TimeoutReported(op) /\ pc = "done"))
  /\ [][Expires => UNCHANGED collections]_vars

C27_Witness ==
  /\ Expired
  /\ op.schema = "combined" /\ op.format = "expression"
  /\ op.result = << TimedOut >>
  /\ pc = "done"
  /\ consoleMessages # << >>

\* ------------------------------------------------- the order of the events
\* the Tab recording what the engine fires: console messages and page
\* errors, dialogs, file choosers, and up to MaxStarted downloads
InitEvents ==
  /\ rawSnapshot = << Blank >>
  /\ truncateSnapshot = 0
  /\ modalStates = << >>
  /\ listener = FALSE
  /\ pc = "idle"
  /\ call = NoCall
  /\ out = NoOut
  /\ loop = NoLoop
  /\ consoleMessages = << >>
  /\ recentConsoleMessages = << >>
  /\ requests = << >>
  /\ downloads = << >>
  /\ pageEx = [NoPage EXCEPT !.links = MaxStarted]
  /\ onPageClose = 0
  /\ actions = NoActions
  /\ op = NoOp

NextEvents ==
  \/ HandleConsoleMessage
  \/ DialogShown
  \/ FileChooserShown
  \/ DownloadEvent
  \/ OutputFileResolved
  \/ SaveAsSettles

SpecEvents == InitEvents /\ [][NextEvents]_vars

\* the list after is the list before with one more record at its end
Appended(before, after) ==
  /\ Len(after) = Len(before) + 1
  /\ SubSeq(after, 1, Len(before)) = before

\* the console log and the modal queue take each event at their end, as it
\* fires
LogsInOrder ==
  /\ consoleMessages' # consoleMessages => Appended(consoleMessages, consoleMessages')
  /\ modalStates' # modalStates => Appended(modalStates, modalStates')

\* the download list holds the downloads in the order of their start events
\* (a download carries the number of its start event), each at most once
DownloadsInOrder ==
  \A i, j \in 1..Len(downloads) : i < j => downloads[i].id < downloads[j].id

\* C25: the events of the engine are recorded in the order in which they
\* fired, none reordered, lost or recorded twice: console messages and page
\* errors in the console log, dialogs and file choosers in the modal queue,
\* downloads in the download list, so that of two downloads the one whose
\* start event fired first comes first in the list.
C25_ArrivalOrder ==
  [][LogsInOrder]_vars /\ []DownloadsInOrder

\* C25, the part the code keeps: the console log and the modal queue are
\* appended to as the events fire, and no download is listed twice
C25_LogsInArrivalOrder ==
  /\ [][LogsInOrder]_vars
  /\ [](\A i, j \in 1..Len(downloads) : i # j => downloads[i].id # downloads[j].id)

C25_Witness ==
  /\ Len(downloads) = 2
  /\ downloads[1].id = 2
  /\ downloads[2].id = 1
  /\ Len(modalStates) = 2
  /\ consoleMessages # << >>

\* ------------------------------------------------------ the element tools
\* click, hover, drag, select-option and element-evaluate calls on a page
\* whose elements come and go
InitTools == InitRefs

NextTools ==
  \/ ClickHandle
  \/ HoverHandle
  \/ SelectOptionHandle
  \/ DragHandle
  \/ EvaluateElementHandle
  \/ RefSnapshotSettles
  \/ ClickWaitForCompletion
  \/ ActionSettles
  \/ DomMutates
  \/ Return

SpecTools == InitTools /\ [][NextTools]_vars

\* the step on which an engine action is issued: the action callback of a
\* race is called
ActionIssued == actions'.started > actions.started

\* every reference of the call in flight is in the snapshot refLocators took
AllResolved(o) ==
  \A k \in 1..Len(o.params) : o.params[k] \in o.snapshot

\* C26: in the click, hover, drag, select-option and element-evaluate tools
\* the engine action is issued only after every reference of the call was
\* resolved against a snapshot taken within the call; when a reference is
\* not in that snapshot the tool fails with the stale-reference error,
\* waitForCompletion is never entered and no engine action is issued.
C26_ResolvedBeforeAction ==
  /\ [][(ActionIssued /\ op.name \in ElementTools) =>
          /\ pc = "located"
          /\ AllResolved(op)
          /\ op.locators = op.params]_vars
  /\ [][(pc = "locating" /\ pc' # "locating") => op'.snapshot = pageEx.refs]_vars
  /\ [](( /\ op.name \in ElementTools
          /\ pc \notin {"idle", "locating"}
          /\ ~AllResolved(op) ) =>
          /\ pc = "done"
          /\ op.outcome = "threw" /\ op.error = "RefNotFound"
          /\ ~op.invoked
          /\ op.race = << >>)

C26_Witness ==
  /\ op.name = "drag"
  /\ pc = "racing"
  /\ op.invoked
  /\ op.params[1] # op.params[2]
  /\ AllResolved(op)

\* a drag whose second reference is stale has failed
C26_WitnessStale ==
  /\ op.name = "drag"
  /\ pc = "done"
  /\ op.params[1] \in op.snapshot
  /\ op.params[2] \notin op.snapshot
  /\ op.outcome = "threw"

\* ------------------------------------------------ pagination called again
\* PageSnapshot.truncatedText called once more with the arguments of the
\* call that has just returned, on the same snapshot object
TruncatedTextAgain ==
  /\ pc = "done"
  /\ call.op = "truncatedText"
  /\ ~call.again
  /\ call' = [call EXCEPT !.again = TRUE]
  /\ out' = TruncatedTextOf(rawSnapshot, call.maxTokens, call.pageNum)
  /\ UNCHANGED << rawSnapshot, truncateSnapshot, modalStates, listener, pc, loop, tabVars >>

\* truncatedText called, and called again, on the snapshot of a Tab whose
\* page logs, opens dialogs and starts downloads in between
InitRepeat ==
  /\ rawSnapshot \in TabTexts
  /\ truncateSnapshot = 0
  /\ modalStates = << >>
  /\ listener = FALSE
  /\ pc = "idle"
  /\ call = NoCall
  /\ out = NoOut
  /\ loop = NoLoop
  /\ TabInit

NextRepeat ==
  \/ TruncatedText
  \/ TruncatedTextAgain
  \/ HandleConsoleMessage
  \/ DialogShown
  \/ DownloadEvent
  \/ OutputFileResolved
  \/ Return

SpecRepeat == InitRepeat /\ [][NextRepeat]_vars

\* a step on which truncatedText is called and returns
PaginationStep == call'.op = "truncatedText" /\ call' # call

TabLists == UNION {[1..n -> BOOLEAN] : n \in 1..MaxTabs}

\* params.tabIndex: not given (0), or a number from 1 on
TabIndexes == 0..(MaxTabs + 1)

\* the tab chosen by indexing context.tabs() from 0 with tabIndex
SelectTabZeroBased(tabs, current, tabIndex) ==
  IF tabIndex = 0 THEN << current >>
  ELSE IF tabIndex + 1 \in 1..Len(tabs) THEN << tabIndex + 1 >> ELSE << >>

\* params.tabIndex ? context.tabs()[params.tabIndex - 1]
\*                 : context.currentTabOrDie(): the position of the tab in
\* context.tabs(), << >> for undefined
SelectTab(tabs, current, tabIndex) ==
  IF tabIndex = 0 THEN << current >>
  ELSE IF tabIndex \in 1..Len(tabs) THEN << tabIndex >> ELSE << >>

TabNotFound == "Tab <n> not found"
VideoNotEnabled == "Video recording is not enabled for this tab"

\* the handler of a video tool up to its first await or throw
VideoHandle(name, tabs, current, tabIndex) ==
  LET tab == SelectTab(tabs, current, tabIndex)
      o == [NoOp EXCEPT !.name = name, !.tabs = tabs, !.current = current,
                        !.tabIndex = tabIndex,
                        !.history = op.history, !.reported = op.reported]
  IN /\ pc = "idle"
     /\ IF tab = << >>
        THEN /\ op' = [o EXCEPT !.outcome = "threw", !.error = TabNotFound]
             /\ pc' = "done"
        ELSE IF ~tabs[tab[1]]
        THEN /\ op' = [o EXCEPT !.outcome = "threw", !.error = VideoNotEnabled]
             /\ pc' = "done"
        ELSE /\ op' = [o EXCEPT !.pathRead = TRUE]
             /\ pc' = "videoPath"
     /\ UNCHANGED << snapVars, raceVars, sessionVars >>

\* getVideoPath.handle; without tabIndex there is a current tab
GetVideoPathHandle ==
  \E tabs \in TabLists, tabIndex \in TabIndexes :
    \E current \in 1..Len(tabs) :
      VideoHandle("getVideoPath", tabs, current, tabIndex)

\* saveVideo.handle; without tabIndex there is a current tab
SaveVideoHandle ==
  \E tabs \in TabLists, tabIndex \in TabIndexes :
    \E current \in 1..Len(tabs) :
      VideoHandle("saveVideo", tabs, current, tabIndex)

\* video.path() settles: get_video_path adds its result, save_video goes on
\* to outputFile
VideoPathSettles ==
  /\ pc = "videoPath"
  /\ IF op.name = "getVideoPath"
     THEN /\ op' = [op EXCEPT !.outcome = "returned", !.result = << "value" >>]
          /\ pc' = "done"
     ELSE /\ pc' = "outputFile"
          /\ op' = op
  /\ UNCHANGED << snapVars, raceVars, sessionVars >>

\* save_video: outputFile settles and copyFile is called
VideoOutputFileResolved ==
  /\ pc = "outputFile"
  /\ op' = [op EXCEPT !.copied = TRUE]
  /\ pc' = "copying"
  /\ UNCHANGED << snapVars, raceVars, sessionVars >>

\* save_video: copyFile settles and the result is added
CopyFileSettles ==
  /\ pc = "copying"
  /\ op' = [op EXCEPT !.outcome = "returned", !.result = << "value" >>]
  /\ pc' = "done"
  /\ UNCHANGED << snapVars, raceVars, sessionVars >>

\* save_video: copyFile rejects with the error of the file system
CopyFileFails ==
  /\ pc = "copying"
  /\ op' = [op EXCEPT !.outcome = "threw", !.error = "copyFile"]
  /\ pc' = "done"
  /\ UNCHANGED << snapVars, raceVars, sessionVars >>

InitVideo == InitSession

NextVideo ==
  \/ GetVideoPathHandle
  \/ SaveVideoHandle
  \/ VideoPathSettles
  \/ VideoOutputFileResolved
  \/ CopyFileSettles
  \/ CopyFileFails
  \/ Return

SpecVideo == InitVideo /\ [][NextVideo]_vars

\* a video tool call is in flight or has just ended
VideoCall == op.name \in {"getVideoPath", "saveVideo"}

\* the failure came before video.path() and copyFile
FailedEarly(message) ==
  /\ pc = "done"
  /\ op.outcome = "threw" /\ op.error = message
  /\ ~op.pathRead /\ ~op.copied
  /\ op.result = << >>

\* C29: get_video_path and save_video fail with 'Tab <n> not found' when
\* the 1-based tabIndex names no open tab, and with the dedicated 'Video
\* recording is not enabled for this tab' error when the selected tab has no
\* video; either failure comes before any video path is read and before any
\* file is copied.
C29_VideoFailsEarly ==
  VideoCall =>
    /\ (op.tabIndex # 0 /\ op.tabIndex \notin 1..Len(op.tabs)) =>
         FailedEarly(TabNotFound)
    /\ (op.tabIndex \in 1..Len(op.tabs) /\ ~op.tabs[op.tabIndex]) =>
         FailedEarly(VideoNotEnabled)
    /\ (op.tabIndex = 0 /\ ~op.tabs[op.current]) =>
         FailedEarly(VideoNotEnabled)

C29_Witness ==
  /\ op.name = "saveVideo"
  /\ Len(op.tabs) = 2
  /\ op.tabs[1] /\ ~op.tabs[2]
  /\ op.tabIndex = 2
  /\ FailedEarly(VideoNotEnabled)

\* a tabIndex past the open tabs has failed
C29_WitnessNoTab ==
  /\ op.name = "getVideoPath"
  /\ op.tabIndex = Len(op.tabs) + 1
  /\ FailedEarly(TabNotFound)

\* ------------------------------------ the claims: the browser_snapshot tool
\* a browser_snapshot call that paginated has returned, the tree captured
ToolPaginated ==
  pc = "done" /\ call.op = "handle" /\ call.truncated /\ call.treeCaptured

\* the text the tool of the call c gives for page p of the same capture
ToolText(c, p) ==
  HandleOf(CaptureTruncatedOf(FullOut(rawSnapshot), c.maxTokens, c.pageNum),
           c.maxTokens, p)

\* the places (page, line) of the tool's pages that hold a line of a tree
ToolTreeLines(c, total) ==
  {pl \in (1..total) \X (1..(Len(rawSnapshot) + 8)) :
     /\ pl[2] <= Len(ToolText(c, pl[1]).content)
     /\ Trimmed(ToolText(c, pl[1]).content[pl[2]])}

\* C30: in the browser_snapshot tool with truncation on, what is split into
\* pages is the whole raw tree of the engine: every line of the raw tree is
\* on some page from 1 to the total the tool reports, and no banner or
\* breadcrumb line of an earlier pagination is paginated as tree content.
C30_PaginatesRawTree ==
  ToolPaginated =>
    LET places == ToolTreeLines(call, out.totalPages)
    IN /\ \A pl \in places :
            \E k \in 1..Len(rawSnapshot) :
              ToolText(call, pl[1]).content[pl[2]] = rawSnapshot[k]
       /\ Cardinality(places) >=
            Cardinality({k \in 1..Len(rawSnapshot) : Trimmed(rawSnapshot[k])})

\* C30, the part the code keeps: a tree that captureTruncatedSnapshot shows
\* on one page is what the tool paginates
C30_SinglePagePaginated ==
  (ToolPaginated /\
   CaptureTruncatedOf(FullOut(rawSnapshot), call.maxTokens, call.pageNum).totalPages = 1) =>
    LET places == ToolTreeLines(call, out.totalPages)
    IN /\ \A pl \in places :
            \E k \in 1..Len(rawSnapshot) :
              ToolText(call, pl[1]).content[pl[2]] = rawSnapshot[k]
       /\ Cardinality(places) =
            Cardinality({k \in 1..Len(rawSnapshot) : Trimmed(rawSnapshot[k])})

C30_Witness ==
  /\ ToolPaginated
  /\ CaptureTruncatedOf(FullOut(rawSnapshot), call.maxTokens, call.pageNum).totalPages = 2
  /\ \E k \in 1..Len(out.content) :
       Trimmed(out.content[k]) /\ ~out.content[k].dash

\* ------------------------------- the claims: navigate and the grace window
\* C31: when the navigation fails with a download signature and no download
\* event fires before the grace window ends, navigate rethrows the error of
\* the navigation; it returns only when the download event fired within the
\* window, and then only after the settle delay that follows.
C31_RethrowsAfterGrace ==
  [][/\ (pc = "grace" /\ pc' = "done") =>
          /\ op.error \in DownloadSignatures
          /\ op'.outcome = "threw"
          /\ op'.error = op.error
     /\ (pc \in {"goto", "grace"} /\ pc' = "settle") =>
          /\ op'.error \in DownloadSignatures
          /\ op'.download = "download"
     /\ (/\ op'.name = "navigate"
         /\ op'.error \in DownloadSignatures
         /\ op.outcome = "pending"
         /\ op'.outcome = "returned") =>
          /\ pc = "settle"
          /\ op.download = "download"]_vars

\* the grace window ended with no download event: navigate threw
C31_Witness ==
  /\ pc = "done"
  /\ op.name = "navigate"
  /\ op.error = "net::ERR_ABORTED"
  /\ op.outcome = "threw"
  /\ op.download = "undefined"
  /\ pageEx.stage = << >>

\* the download event fired within the window: navigate returned
C31_WitnessDownload ==
  /\ pc = "done"
  /\ op.name = "navigate"
  /\ op.error = "net::ERR_ABORTED"
  /\ op.outcome = "returned"
  /\ op.download = "download"
  /\ pageEx.stage # << >>

\* --------------------- the passes as the browser_snapshot tool and the Tab
\* --------------------- write them, on the lines of a raw text
\* snapshot.handle, first pass with an element also closed after a line that
\* does not start with '-'
RECURSIVE HandleFirstPassAnyLine(_, _, _, _, _)
HandleFirstPassAnyLine(lines, i, inElement, elementStartLine, elementBoundaries) ==
  IF i < Len(lines)
  THEN LET trimmedLine   == Trimmed(At(lines, i))
           leadingSpaces == LeadingSpaces(At(lines, i))
           starts == trimmedLine /\ ~inElement
           inside == inElement \/ starts
           start  == IF starts THEN i ELSE elementStartLine
           ends   == /\ i < Len(lines) - 1
                     /\ \/ ~trimmedLine
                        \/ /\ Trimmed(At(lines, i + 1))
                           /\ LeadingSpaces(At(lines, i + 1)) <= leadingSpaces
                     /\ inside
       IN HandleFirstPassAnyLine(lines, i + 1, inside /\ ~ends, start,
                                 IF ends THEN elementBoundaries \o << start, i + 1 >>
                                 ELSE elementBoundaries)
  ELSE IF inElement THEN elementBoundaries \o << elementStartLine, Len(lines) >>
       ELSE elementBoundaries

\* snapshot.handle, first pass: the loop from line i on with its locals, and
\* "Handle last element" after it
RECURSIVE HandleFirstPass(_, _, _, _, _)
HandleFirstPass(lines, i, inElement, elementStartLine, elementBoundaries) ==
  IF i < Len(lines)
  THEN LET trimmedLine   == Trimmed(At(lines, i))
           leadingSpaces == LeadingSpaces(At(lines, i))
           starts == trimmedLine /\ ~inElement
           inside == inElement \/ starts
           start  == IF starts THEN i ELSE elementStartLine
           ends   == /\ i < Len(lines) - 1
                     /\ \/ ~trimmedLine
                        \/ /\ Trimmed(At(lines, i + 1))
                           /\ LeadingSpaces(At(lines, i + 1)) <= leadingSpaces
                           /\ At(lines, i).dash
                     /\ inside
       IN HandleFirstPass(lines, i + 1, inside /\ ~ends, start,
                          IF ends THEN elementBoundaries \o << start, i + 1 >>
                          ELSE elementBoundaries)
  ELSE IF inElement THEN elementBoundaries \o << elementStartLine, Len(lines) >>
       ELSE elementBoundaries

\* snapshot.handle: elementWordCount of the element lines[from..to)
RECURSIVE HandleElementWordCount(_, _, _)
HandleElementWordCount(lines, j, elementEnd) ==
  IF j < elementEnd
  THEN WordCount(At(lines, j)) + HandleElementWordCount(lines, j + 1, elementEnd)
  ELSE 0

\* snapshot.handle, second pass: the loop from boundary index i on with its
\* locals, and "Add final page" after it
RECURSIVE HandleSecondPass(_, _, _, _, _, _, _, _)
HandleSecondPass(lines, eb, maxWordsPerPage, i, pages, currentPageStart, currentWordCount, currentElementIndex) ==
  IF i < Len(eb)
  THEN LET elementStart     == eb[i + 1]
           elementEnd       == eb[i + 2]
           elementWordCount == HandleElementWordCount(lines, elementStart, elementEnd)
       IN IF currentWordCount + elementWordCount > maxWordsPerPage /\ currentWordCount > 0
          THEN HandleSecondPass(lines, eb, maxWordsPerPage, i + 2,
                 Append(pages, [startLine |-> currentPageStart,
                                endLine |-> elementStart,
                                startElement |-> currentElementIndex \div 2,
                                endElement |-> i \div 2]),
                 elementStart, elementWordCount, i)
          ELSE HandleSecondPass(lines, eb, maxWordsPerPage, i + 2, pages,
                 currentPageStart, currentWordCount + elementWordCount,
                 currentElementIndex)
  ELSE IF currentWordCount > 0
       THEN Append(pages, [startLine |-> currentPageStart,
                           endLine |-> Len(lines),
                           startElement |-> currentElementIndex \div 2,
                           endElement |-> Len(eb) \div 2])
       ELSE pages

\* snapshot.handle on the lines of rawSnapshot: both passes, the page
\* selected and the numbers of its banner
HandlePasses(lines, maxTokens, pageNum) ==
  LET maxWordsPerPage == (maxTokens * 3) \div 4
      eb         == HandleFirstPass(lines, 0, FALSE, 0, << >>)
      pages      == HandleSecondPass(lines, eb, maxWordsPerPage, 0, << >>, 0, 0, 0)
      totalPages == IF Len(pages) = 0 THEN 1 ELSE Len(pages)
      actualPage == Min2(Max2(1, pageNum), totalPages)
  IN [eb |-> eb, pages |-> pages, totalPages |-> totalPages,
      actualPage |-> actualPage,
      banner |-> IF actualPage <= Len(pages) /\ actualPage < totalPages
                 THEN << [page |-> actualPage, of |-> totalPages,
                          shown |-> pages[actualPage].endElement
                                      - pages[actualPage].startElement,
                          remaining |-> (Len(eb) \div 2) - pages[actualPage].endElement,
                          next |-> actualPage + 1] >>
                 ELSE << >>]

\* Tab.captureTruncatedSnapshot, first pass: the loop from line i on with
\* its locals, and "Handle last element" after it
RECURSIVE TabFirstPass(_, _, _, _, _)
TabFirstPass(lines, i, inElement, elementStartLine, elementBoundaries) ==
  IF i < Len(lines)
  THEN LET trimmedLine   == Trimmed(At(lines, i))
           leadingSpaces == LeadingSpaces(At(lines, i))
           starts == trimmedLine /\ ~inElement
           inside == inElement \/ starts
           start  == IF starts THEN i ELSE elementStartLine
           ends   == /\ i < Len(lines) - 1
                     /\ \/ ~trimmedLine
                        \/ /\ Trimmed(At(lines, i + 1))
                           /\ LeadingSpaces(At(lines, i + 1)) <= leadingSpaces
                           /\ At(lines, i).dash
                     /\ inside
       IN TabFirstPass(lines, i + 1, inside /\ ~ends, start,
                       IF ends THEN elementBoundaries \o << start, i + 1 >>
                       ELSE elementBoundaries)
  ELSE IF inElement THEN elementBoundaries \o << elementStartLine, Len(lines) >>
       ELSE elementBoundaries

\* PageSnapshot.truncatedText on every raw text of at most MaxLines lines
InitWords == InitPaginate

NextWords ==
  \/ TruncatedText
  \/ Return

SpecWords == InitWords /\ [][NextWords]_vars

\* truncatedText has returned a page of rawSnapshot
WordsPaginated == pc = "done" /\ call.op = "truncatedText"

\* C32: for the same raw text, page number and word budget,
\* PageSnapshot.truncatedText and the browser_snapshot handler compute the
\* same element boundaries, page line ranges, totalPages and banner counts,
\* and the tokenizer variant of the Tab computes the same element boundaries.
C32_SamePasses ==
  WordsPaginated =>
    LET p == Paginate("words", rawSnapshot, call.maxTokens, call.pageNum)
        h == HandlePasses(rawSnapshot, call.maxTokens, call.pageNum)
    IN /\ h.eb = p.eb
       /\ h.pages = p.pages
       /\ h.totalPages = p.totalPages
       /\ h.totalPages = out.totalPages
       /\ h.actualPage = out.currentPage
       /\ h.banner = out.banner
       /\ TabFirstPass(rawSnapshot, 0, FALSE, 0, << >>) = p.eb

\* a text of several elements on several pages, a page with a banner
C32_Witness ==
  /\ WordsPaginated
  /\ out.banner # << >>
  /\ Len(ElementBoundaries(rawSnapshot)) > 4
  /\ \E k \in 1..Len(rawSnapshot) : ~Trimmed(rawSnapshot[k])
  /\ \E k \in 1..Len(rawSnapshot) : rawSnapshot[k].indent > 0

\* ------------------------------- the claims: the listener of the race
\* the modal-state listeners registered on the Tab
Listeners == (IF listener THEN 1 ELSE 0) + actions.leaked

\* C33: whenever the race helper has finished, by the action completing, by
\* a modal state arriving or by the action failing, the listener it
\* registered is no longer on the Tab: between tool calls the Tab holds no
\* modal-state listener of an earlier race.
C33_NoListenerLeftOver ==
  pc \in {"idle", "done"} => Listeners = 0

\* C33, the part the code keeps: a race that ends with waitForCompletion
\* returning, the action completed or a modal state arrived, leaves no
\* listener of its own on the Tab
C33_RemovedWhenReturned ==
  [][(pc = "racing" /\ pc' = "done" /\ op'.outcome = "returned") =>
        /\ ~listener'
        /\ actions'.leaked <= actions.leaked]_vars

\* C33: a pushed modal state notifies at most one waiting listener
C33_NotifiesAtMostOne ==
  [][Len(modalStates') > Len(modalStates) => Listeners <= 1]_vars

\* ---------------------------------- the claims: what the race yields
\* the race of the call in flight has yielded a modal state
YieldedModal == op.race # << >> /\ op.race # << Undefined >>

\* C34: whenever the race helper yields a modal state, that state is the
\* head of the Tab's modal queue at that moment, the earliest modal state
\* not yet cleared, also when several modal states arrive during one action.
C34_YieldsQueueHead ==
  /\ [][(op'.race # op.race /\ op'.race # << >> /\ op'.race # << Undefined >>) =>
          /\ modalStates' # << >>
          /\ op'.race = << modalStates'[1] >>]_vars
  /\ []((pc = "done" /\ YieldedModal) => op.race = << modalStates[1] >>)

\* two modal states arrived during one action, which is still running: the
\* race yielded the first of them
C34_Witness ==
  /\ pc = "done"
  /\ op.invoked
  /\ YieldedModal
  /\ actions.background > 0
  /\ Len(modalStates) = 2
  /\ op.race = << modalStates[1] >>

\* the race yielded the head of a queue of two without running the action
C34_WitnessQueued ==
  /\ pc = "done"
  /\ ~op.invoked
  /\ YieldedModal
  /\ Len(modalStates) = 2

\* ------------------------------------- waitForCompletion and its action
\* the engine rejects the action of the race in flight, should the race not
\* take the rejection up
ActionFailsUnnoticed ==
  /\ pc = "racing"
  /\ op.name = "waitForCompletion"
  /\ actions.current
  /\ actions' = [actions EXCEPT !.current = FALSE]
  /\ UNCHANGED << snapVars, modalStates, listener, pc, op, sessionVars >>

\* the engine rejects the action of the race in flight: Promise.race rejects
\* and waitForCompletion throws; the listener is not removed
ActionFails ==
  /\ pc = "racing"
  /\ op.name = "waitForCompletion"
  /\ actions.current
  /\ actions' = RaceRejected([actions EXCEPT !.current = FALSE])
  /\ listener' = FALSE
  /\ op' = [op EXCEPT !.outcome = "threw", !.error = "action failed"]
  /\ pc' = "done"
  /\ UNCHANGED << snapVars, modalStates, sessionVars >>

\* waitForCompletion calls whose action the engine completes or rejects, on
\* a page that opens dialogs and file choosers
InitWait == InitAction

NextWait ==
  \/ WaitForCompletion
  \/ ActionSettles
  \/ ActionFails
  \/ BackgroundActionSettles
  \/ DialogShown
  \/ FileChooserShown
  \/ ClearModalState
  \/ Return

SpecWait == InitWait /\ [][NextWait]_vars

\* every action the engine was handed settles: it returns or fails
SpecWaitLive ==
  /\ SpecWait
  /\ WF_vars(ActionSettles \/ ActionFails)
  /\ WF_vars(BackgroundActionSettles)

\* C35: when every engine action eventually settles, every call of
\* waitForCompletion eventually returns or fails; and when a modal state
\* arrives while the action is pending, waitForCompletion returns without
\* waiting for the action to settle.
C35_WaitTerminates ==
  /\ (pc = "racing") ~> (pc = "done" /\ op.outcome \in {"returned", "threw"})
  /\ [][ModalWinsRace =>
          /\ pc' = "done"
          /\ op'.outcome = "returned"
          /\ actions.current
          /\ actions'.background = actions.background + 1
          /\ actions'.effects = actions.effects]_vars

\* a modal state ended the call with its action not settled
C35_Witness ==
  /\ pc = "done"
  /\ op.name = "waitForCompletion"
  /\ op.outcome = "returned"
  /\ op.invoked
  /\ modalStates # << >>
  /\ op.race = << modalStates[1] >>
  /\ actions.background = 1
  /\ actions.effects = 0

\* the action failed and the call failed with it
C35_WitnessFailed ==
  /\ pc = "done"
  /\ op.name = "waitForCompletion"
  /\ op.outcome = "threw"
  /\ op.error = "action failed"

\* ------------------------------------ the claims: how the pages are filled
\* C36: pages are filled greedily: for every page but the last, the size of
\* the page plus the size of the first element of the page after it is
\* greater than the budget; every page holds at least one element, so
\* totalPages is at most the number of elements, and 1 when there are none.
C36_GreedyPages ==
  WordsPaginated =>
    LET pages  == Pages("words", rawSnapshot, MaxWordsPerPage(call.maxTokens))
        elems  == ElementsOf(rawSnapshot)
        budget == MaxWordsPerPage(call.maxTokens)
    IN /\ \A k \in 1..(Len(pages) - 1) :
            /\ \E e \in elems : e[1] = pages[k + 1].startLine
            /\ \A e \in elems :
                 e[1] = pages[k + 1].startLine =>
                   SumSizes("words", rawSnapshot, Within(elems, pages[k]))
                     + ElementSize("words", rawSnapshot, e[1], e[2]) > budget
       /\ \A k \in 1..Len(pages) :
            /\ Within(elems, pages[k]) # {}
            /\ pages[k].endElement > pages[k].startElement
       /\ out.totalPages = TotalPages(pages)
       /\ elems # {} => out.totalPages <= Cardinality(elems)
       /\ elems = {} => out.totalPages = 1

\* three elements, the first two together on a page within the budget, the
\* third on the page after it
C36_Witness ==
  /\ WordsPaginated
  /\ out.totalPages = 2
  /\ Cardinality(ElementsOf(rawSnapshot)) = 3
  /\ MaxWordsPerPage(call.maxTokens) = 2
  /\ Cardinality(ElementsOn(rawSnapshot,
       Pages("words", rawSnapshot, MaxWordsPerPage(call.maxTokens))[1])) = 2

\* no element at all: one page
C36_WitnessNoElement ==
  /\ WordsPaginated
  /\ ElementsOf(rawSnapshot) = {}
  /\ out.totalPages = 1

\* --------------------------------- the claims: the element boundaries
\* C37: boundary detection yields elements that each start at a non-blank
\* line, are pairwise disjoint and in increasing line order, and together
\* hold every non-blank line of the input exactly once; an element still
\* open when the scan reaches the end of the input is closed at the last line.
C37_ElementsPartition ==
  WordsPaginated =>
    LET eb   == ElementBoundaries(rawSnapshot)
        n    == NumElements(eb)
        last == ScanLoop(rawSnapshot, ScanInit)
    IN /\ Len(eb) = 2 * n
       /\ \A k \in 0..(n - 1) :
            /\ 0 <= Eb(eb, 2 * k)
            /\ Eb(eb, 2 * k) < Eb(eb, 2 * k + 1)
            /\ Eb(eb, 2 * k + 1) <= Len(rawSnapshot)
            /\ Trimmed(At(rawSnapshot, Eb(eb, 2 * k)))
            /\ k > 0 => Eb(eb, 2 * k - 1) <= Eb(eb, 2 * k)
       /\ \A i \in 0..(Len(rawSnapshot) - 1) :
            Trimmed(At(rawSnapshot, i)) =>
              Cardinality({k \in 0..(n - 1) :
                             Eb(eb, 2 * k) <= i /\ i < Eb(eb, 2 * k + 1)}) = 1
       /\ last.inElement =>
            /\ n > 0
            /\ Eb(eb, 2 * n - 2) = last.elementStartLine
            /\ Eb(eb, 2 * n - 1) = Len(rawSnapshot)

\* two elements with a blank line between them, the second one of two lines
\* and open at the end of the input
C37_Witness ==
  /\ WordsPaginated
  /\ ElementBoundaries(rawSnapshot) = << 0, 2, 2, 4 >>
  /\ ~Trimmed(rawSnapshot[2])
  /\ ScanLoop(rawSnapshot, ScanInit).inElement

\* ------------------------ the claims: the console listener of evaluate
\* a browser_evaluate call of a page evaluation has returned or thrown
PageEvaluated == pc = "done" /\ op.name = "evaluate" /\ ~op.element

\* C38: the temporary console listener that browser_evaluate registers on
\* the page for a page evaluation is removed by the time the tool call
\* returns, on every path: evaluation settled, evaluation error, timeout, and
\* a queued or newly arrived modal state that makes waitForCompletion return
\* before the callback has finished or started.
C38_ConsoleHandlerRemoved ==
  PageEvaluated => ~op.handler

\* C38, the part the code keeps: once the callback has run to its end, the
\* evaluation settled or its timer fired, the listener is removed
C38_RemovedByCallback ==
  (PageEvaluated /\ (op.settled \/ (op.elapsed /\ op.timeout))) => ~op.handler

\* C38: a call that a modal state ended holds its listener until its
\* callback ends, and for good when the callback was never started
C38_KeptUnderModal ==
  (PageEvaluated /\ YieldedModal /\ ~op.settled /\ ~op.elapsed) => op.handler

====
